---- MODULE Spec2Model ----
(***************************************************************************)
(* State-machine model of pyVoIP's SIPClient (src/pyVoIP/SIP.py): the      *)
(* receive loop, start/stop, register/deregister, invite, subscribe and    *)
(* the refresh Timer, as concurrent threads sharing recvLock, the UDP      *)
(* socket and the client's fields.                                         *)
(*                                                                         *)
(* Reading conventions used throughout:                                    *)
(*   - debug(...) calls are logging and have no effect on the state (SIP.py *)
(*     passes debug one argument where pyVoIP.debug takes a level and a    *)
(*     text; the model reads the calls as the logging they stand for);     *)
(*   - self.genTag / self.genInvite resolve to gen_tag / gen_invite;       *)
(*   - a Call-ID is identified with the callID counter value it hashes;    *)
(*   - the call callback is application code: it is recorded when invoked  *)
(*     and may return or raise.                                            *)
(***************************************************************************)
EXTENDS Integers, Sequences, FiniteSets, TLC

(* ---------------------------- bounds ----------------------------------- *)
MaxTimers == 3      \* refresh Timer objects created in one run
MaxDeliver == 3     \* datagrams the network delivers in one run
MaxQueue == 1       \* datagrams waiting on the socket at one time
MaxInvites == 1     \* invite() calls made by the application
MaxSubscribes == 1  \* subscribe() calls made by the application
MaxStarts == 2      \* sockets opened by start() in one run
MaxDeliverReg == 4  \* replies a registrar alone sends in one run
MaxVia == 2         \* distinct received/rport pairs the registrar may report
MaxDraws == 4       \* calls of gen_call_id in a run of concurrent callers
MaxVias == 2        \* Via headers of a request that is answered
MaxCodecs == 2      \* payload types offered in an SDP body
MaxHeaderLines == 5 \* header lines of a datagram that is parsed
MaxPayload == 2     \* payload types an SDP body that is parsed may name
RecursionLimit == 5 \* nested calls the interpreter allows (stands for 1000)
MaxDeliverRetry == 5 \* replies the registrar sends in a run of retries

(* ---------------------------- threads ---------------------------------- *)
Caller == 0 - 1                 \* the application thread
Stopper == 0 - 2                \* a second application thread, calling stop()
Loop == 0                       \* the "SIP Recieve" thread running recv()
TimerIds == 1..MaxTimers        \* one thread per refresh Timer
Threads == {Caller, Stopper, Loop} \cup TimerIds

DEBUG == TRUE                   \* pyVoIP.DEBUG = 'DEBUG' is truthy
default_expires == 120

VARIABLES
  firstRequest,     \* thread -> the REGISTER it has built and not sent yet (register, deregister)
  inCallback,       \* threads whose call of the call callback has not returned
  data,             \* the datagram handed to SIPMessage(data) last
  message,          \* the SIPMessage made from it, or the error raised
  body_raw,         \* parse_raw_body: the set of distinct lines of the SDP body
  todo,             \* the lines of body_raw the for loop has not reached yet
  body,             \* SIPMessage.body['m'], and the error a line raised
  headers_raw,      \* the header lines of the datagram parsed last
  headers,          \* SIPMessage.headers after parsing them, or the error raised
  built,            \* the text a builder (gen_...) returned last
  regTag,           \* self.tagLibrary['register']
  urnUUID,          \* self.urnUUID
  cx,               \* thread -> the local x of its Counter.count() call, 0 outside
  issued,           \* the values gen_call_id has drawn from callID, as returned
  ibranch,          \* branch local of invite()
  depth,            \* thread -> register() / deregister() calls nested in its current one
  tags,             \* self.tags: the tags gen_tag has handed out
  cand,             \* thread -> 0 or the tag it found unused inside gen_tag
  kaSeen,           \* a keep-alive NOTIFY has been passed to parse_message
  firedKA,          \* Timers that fired after that, before stop() was called
  my_public_ip, my_public_port,  \* 0 (None) or the Via pair recorded
  NSD,              \* running flag
  use_keep_alive,
  callCallback,     \* TRUE iff a call callback is configured
  sock,             \* "none" (never created), "open", "closed"
  blocking,         \* blocking mode of the socket
  inbox,            \* datagrams queued on the socket
  recvLock,         \* set of threads holding the lock
  registerThread,   \* 0 (None) or the id of the Timer last assigned
  timers,           \* Timer id -> "unused","created","pending","fired","cancelled"
  callID, registerCounter, inviteCounter, subscribeCounter,
  tagLibrary,       \* self.tagLibrary without 'register': Call-ID -> the tag stored
  pc,               \* thread -> position
  resp,             \* thread -> the local variable `response`
  icall,            \* call_id local of invite()
  result,           \* thread -> how its last operation ended
  wire,             \* every message the client put on the wire, in order
  cbLog,            \* messages passed to the call callback, in order
  todoLog,          \* responses that parse_message only logged
  delivered, nInvites, nSubs,
  started,          \* a start() has returned normally
  stopState,        \* "no", "active", "returned", "raised"
  socketsCreated, loopsSpawned

vars == <<firstRequest, inCallback, data, message, body_raw, todo, body, headers_raw, headers, built, regTag, urnUUID, cx, issued, ibranch, depth, tags, cand, kaSeen, firedKA, my_public_ip, my_public_port, NSD, use_keep_alive, callCallback, sock, blocking, inbox, recvLock,
          registerThread, timers, callID, registerCounter, inviteCounter,
          subscribeCounter, tagLibrary, pc, resp, icall, result, wire, cbLog,
          todoLog, delivered, nInvites, nSubs, started, stopState,
          socketsCreated, loopsSpawned>>

(* ---------------------------- messages --------------------------------- *)
\* via: 0 when the first Via carries no received/rport pair, else the pair's
\* number (received = R_via, rport = P_via)
NoMsg == [type |-> "none", status |-> 0, method |-> "", callid |-> 0, event |-> "", via |-> 0,
          cseq |-> 0]
RespVia(s, c, v) ==
  [type |-> "resp", status |-> s, method |-> "", callid |-> c, event |-> "", via |-> v,
   cseq |-> 0]
Resp(s, c) == RespVia(s, c, 0)
\* the CSeq number the peer's requests carry
PeerCSeq == 7
Req(m, c, e) == [type |-> "req", status |-> 491, method |-> m, callid |-> c, event |-> e, via |-> 0,
                 cseq |-> PeerCSeq]
Bad(k) == [type |-> "bad", status |-> 0, method |-> k, callid |-> 0, event |-> "", via |-> 0,
           cseq |-> 0]

SIPCompatibleMethods == {"INVITE", "ACK", "BYE", "CANCEL", "NOTIFY"}
SIPCompatibleVersions == {"SIP/2.0"}
ForeignCallId == 0
\* the number of the Call-ID that reads `register`
RegisterKey == 0 - 1

\* The peer's vocabulary.  Replies outside a call (to REGISTER, SUBSCRIBE),
\* replies carrying the Call-ID of an INVITE on the wire, requests, and a
\* datagram SIPMessage() cannot parse.
RegStatuses == {100, 200, 401, 500}
CallStatuses == {100, 180, 401}
PeerMethods == {"INVITE", "BYE"}
InviteCallIds == {wire[i].callid : i \in {j \in 1..Len(wire) : wire[j].kind = "INVITE"}}

Datagrams ==
  {Resp(s, ForeignCallId) : s \in RegStatuses}
  \cup {Resp(s, c) : s \in CallStatuses, c \in InviteCallIds}
  \cup {Req(m, ForeignCallId, "") : m \in PeerMethods}
  \cup {Req("NOTIFY", ForeignCallId, "keep-alive")}
  \cup {Bad("version")}

\* status values a parsed message can carry (491 is SIPMessage's initial value)
StatusCodes == RegStatuses \cup CallStatuses \cup {400, 491} \cup {404, 486, 503}

\* SIPMessage(raw) raises for a datagram that does not parse
ParseFails(m) == m.type = "bad"

\* what the client sends: cmethod is the method named in the CSeq header of
\* a reply, event its Event header, totag the tag gen_tag produced for its
\* To header (0: the To header carries no tag of this client), lines the
\* text of an INVITE as the sequence of its lines
\* line 1370, "z9hG4bK" + self.gen_call_id()[0:25]: the prefix and the first 25
\* hex digits of the SHA-256 of the counter value n, which stand for n (two
\* counter values give two digests); NoBranch is the branch of a message
\* whose Via the model does not follow
Branch(n) == <<"z9hG4bK", n>>
NoBranch == <<"", 0>>
Reg(exp, auth, cid, cseq) ==
  [kind |-> "REGISTER", callid |-> cid, expires |-> exp, auth |-> auth, cseq |-> cseq,
   cmethod |-> "", event |-> "", totag |-> 0, lines |-> <<>>, branch |-> NoBranch,
   fromtag |-> regTag, instance |-> urnUUID]
Out(kind, cid, auth) ==
  [kind |-> kind, callid |-> cid, expires |-> 0 - 1, auth |-> auth, cseq |-> 0,
   cmethod |-> "", event |-> "", totag |-> 0, lines |-> <<>>, branch |-> NoBranch,
   fromtag |-> 0, instance |-> ""]

\* gen_invite, lines 1276-1290: the request line, the headers in the order
\* they are written, the empty line and the SDP body; a line is named by
\* what it starts with
InviteLines ==
  <<"INVITE", "Via", "Max-Forwards", "Contact", "To", "From", "Call-ID", "CSeq",
    "Allow", "Content-Type", "User-Agent", "Content-Length", "",
    "v=", "o=", "s=", "c=", "t=", "m=", "a=rtpmap", "a=ptime", "a=maxptime", "a=">>
gen_invite(cid, br, tg) ==
  [Out("INVITE", cid, FALSE) EXCEPT !.lines = InviteLines, !.branch = br, !.fromtag = tg]

\* line 1408, invite.replace('\r\nContent-Length', '\r\n' + auth +
\* 'Content-Length'): the Authorization line is put in front of every line
\* after the first that starts with Content-Length
InsertAuth_after(ls) == Append(ls, "Authorization")
InsertAuth(ls) ==
  LET f[n \in 0..Len(ls)] ==
        IF n = 0 THEN <<>>
        ELSE IF n > 1 /\ ls[n] = "Content-Length"
          THEN f[n - 1] \o <<"Authorization", ls[n]>>
          ELSE Append(f[n - 1], ls[n])
  IN f[Len(ls)]

\* gen_ok: 200 OK with the request's Call-ID and CSeq, To tag from gen_tag
gen_ok(m, tg) ==
  [Out("200", m.callid, FALSE) EXCEPT !.cseq = m.cseq, !.cmethod = m.method,
                                      !.totag = tg]
\* gen_busy: 486 Busy Here with the request's Call-ID and CSeq, To tag from
\* gen_tag
gen_busy(m, tg) ==
  [Out("486", m.callid, FALSE) EXCEPT !.cseq = m.cseq, !.cmethod = m.method,
                                      !.totag = tg]
\* gen_ack: ACK with the Call-ID of the response, From tag from tagLibrary,
\* To tag from gen_tag
gen_ack(m, tg) ==
  [Out("ACK", m.callid, FALSE) EXCEPT !.totag = tg, !.fromtag = tagLibrary[m.callid]]
\* gen_notify: 200 OK with the request's Call-ID and Event, CSeq number + 1
gen_notify(m) ==
  [Out("200N", m.callid, FALSE) EXCEPT !.cseq = m.cseq + 1, !.cmethod = m.method,
                                       !.event = m.event]

(* ---------------------------- helpers ---------------------------------- *)
\* self.tagLibrary[c] = tg
Store(c, tg) ==
  [k \in DOMAIN tagLibrary \cup {c} |-> IF k = c THEN tg ELSE tagLibrary[k]]

\* positions of a thread inside stop(), deregister() included
StopPcs == {"stop_cancel", "d_acquire", "d_send", "d_wait1", "d_auth", "d_wait2", "d_final",
            "stop_close"}
Terminal(t) == IF t = Caller THEN "idle" ELSE "dead"

\* an exception leaves the operation: the application thread gets the error,
\* any other thread dies with it
Raise(t, e) ==
  /\ pc' = [pc EXCEPT ![t] = Terminal(t)]
  /\ result' = [result EXCEPT ![t] = e]
  /\ stopState' = IF pc[t] \in StopPcs /\ stopState = "active" THEN "raised" ELSE stopState

Goto(t, l) == pc' = [pc EXCEPT ![t] = l]

\* threading.Lock: acquire() blocks while the lock is held
Acquire_reentrant(t) == recvLock \subseteq {t} /\ recvLock' = {t}
CanAcquire_open == TRUE
CanAcquire == recvLock = {}
Acquire(t) == CanAcquire /\ recvLock' = recvLock \cup {t}
Release == recvLock' = {}

\* error raised by a socket call on a closed socket (EBADF)
SockErr == "OSError"

Init ==
  /\ NSD = FALSE
  /\ my_public_ip = 0 /\ my_public_port = 0
  /\ kaSeen = FALSE /\ firedKA = {}
  /\ use_keep_alive = FALSE
  /\ callCallback \in BOOLEAN
  /\ sock = "none"
  /\ blocking = TRUE
  /\ inbox = <<>>
  /\ recvLock = {}
  /\ registerThread = 0
  /\ timers = [i \in TimerIds |-> "unused"]
  /\ callID = 1 /\ registerCounter = 1 /\ inviteCounter = 1 /\ subscribeCounter = 1
  /\ tagLibrary = [c \in {} |-> 0]
  /\ tags = {1}                 \* line 785: the tag stored under 'register'
  /\ regTag \in tags
  /\ urnUUID = "urn:uuid:UUID4"
  /\ cand = [t \in Threads |-> 0]
  /\ depth = [t \in Threads |-> 0]
  /\ pc = [t \in Threads |-> IF t = Caller THEN "idle" ELSE "unborn"]
  /\ resp = [t \in Threads |-> NoMsg]
  /\ icall = 0
  /\ firstRequest = [t \in Threads |-> Out("", 0, FALSE)]
  /\ inCallback = {}
  /\ data = "" /\ message = [exc |-> "unparsed", type |-> "", keys |-> {}, body |-> {}]
  /\ body_raw = {} /\ todo = {}
  /\ body = [m |-> <<>>, exc |-> ""]
  /\ headers_raw = <<>>
  /\ headers = [exc |-> "unparsed", keys |-> {}, via |-> 0]
  /\ built = ""
  /\ cx = [t \in Threads |-> 0]
  /\ issued = <<>>
  /\ ibranch = NoBranch
  /\ result = [t \in Threads |-> "none"]
  /\ wire = <<>>
  /\ cbLog = <<>>
  /\ todoLog = {}
  /\ delivered = 0 /\ nInvites = 0 /\ nSubs = 0
  /\ started = FALSE
  /\ stopState = "no"
  /\ socketsCreated = 0 /\ loopsSpawned = 0

(* ---------------------------- parse_message ---------------------------- *)
\* Outcome of self.callCallback(m): the message is logged as passed; the
\* call raises TypeError when no callback is configured, and may raise when
\* the application's callback does (cbr).
CallbackExc(cbr) == IF ~callCallback THEN "TypeError"
                    ELSE IF cbr THEN "CallbackError" ELSE ""

\* gentag: parse_message has reached the gen_tag call of gen_busy / gen_ok
PMState == [wire |-> wire, cbLog |-> cbLog, todoLog |-> todoLog,
            blocking |-> blocking, uka |-> use_keep_alive, ka |-> kaSeen,
            exc |-> "", gentag |-> FALSE]

\* send_message inside parse_message: appends to the wire or raises
PMSend(s, msg) == IF sock = "open" THEN [s EXCEPT !.wire = Append(s.wire, msg)]
                  ELSE [s EXCEPT !.exc = SockErr]

\* callback then reply (BYE, CANCEL, NOTIFY)
PMCallThen(s, m, cbr, after) ==
  IF CallbackExc(cbr) # ""
    THEN [s EXCEPT !.exc = CallbackExc(cbr),
                   !.cbLog = IF callCallback THEN Append(s.cbLog, m) ELSE s.cbLog]
    ELSE after

PMResponse_all(m, cbr) ==
  LET s0 == PMState
  IN IF callCallback THEN [s0 EXCEPT !.cbLog = Append(s0.cbLog, m), !.blocking = TRUE]
     ELSE [s0 EXCEPT !.blocking = TRUE]
PMResponse(m, cbr) ==
  LET s0 == PMState
      s1 == IF m.status \in {200, 404, 503}
              THEN IF callCallback
                     THEN [s0 EXCEPT !.cbLog = Append(s0.cbLog, m),
                                     !.exc = IF cbr THEN "CallbackError" ELSE ""]
                     ELSE s0
              ELSE IF m.status \in {100, 180} THEN s0
              ELSE [s0 EXCEPT !.todoLog = s0.todoLog \cup {m}]
  IN IF s1.exc # "" THEN s1
     ELSE IF sock = "open" THEN [s1 EXCEPT !.blocking = TRUE]
     ELSE [s1 EXCEPT !.exc = SockErr]

PMRequest(m, cbr) ==
  LET s0 == PMState
      sc == [s0 EXCEPT !.cbLog = Append(s0.cbLog, m)]
  IN CASE m.method = "INVITE" ->
            IF ~callCallback THEN [s0 EXCEPT !.gentag = TRUE]
            ELSE [sc EXCEPT !.exc = IF cbr THEN "CallbackError" ELSE ""]
       [] m.method \in {"BYE", "CANCEL"} ->
            PMCallThen(s0, m, cbr, [sc EXCEPT !.gentag = TRUE])
       [] m.method = "NOTIFY" ->
            PMCallThen(s0, m, cbr,
              PMSend([sc EXCEPT !.uka = IF m.event = "keep-alive" THEN TRUE ELSE sc.uka],
                     gen_notify(m)))
       [] OTHER -> s0      \* ACK: return; other methods are only logged

IsKeepAlive(m) == m.type = "req" /\ m.method = "NOTIFY" /\ m.event = "keep-alive"

parse_message(m, cbr) ==
  LET o == IF m.type = "resp" THEN PMResponse(m, cbr) ELSE PMRequest(m, cbr)
  IN [o EXCEPT !.ka = @ \/ IsKeepAlive(m)]

CbChoices == IF callCallback THEN BOOLEAN ELSE {FALSE}

\* gen_tag, lines 966-969: tags are drawn at random until one passes
\* `tag not in self.tags`. Tags are opaque, so one value (NewTag) stands for
\* every tag no thread has seen; the draw that passes the test is NewTag or
\* a tag another thread has found unused and not appended yet.
NewTag ==
  LET used == tags \cup {cand[t] : t \in Threads}
  IN CHOOSE n \in 1..(Cardinality(used) + 1) :
       n \notin used /\ \A k \in 1..(n - 1) : k \in used
TagDraws == {NewTag} \cup ({cand[t] : t \in Threads} \ (tags \cup {0}))

\* a whole gen_tag call made while no other thread can be inside gen_tag
\* with the same candidate: test and append (lines 969-971)
gen_tag(tg) == tg \in TagDraws /\ tags' = tags \cup {tg}

\* the reply parse_message builds once gen_tag has returned
GenTagReply(m, tg) == IF m.method = "INVITE" THEN gen_busy(m, tg) ELSE gen_ok(m, tg)

\* lines 970-971 and the send_message of parse_message that follows; lost
\* with an OSError when the socket is closed
GenTagSend(t) ==
  /\ tags' = tags \cup {cand[t]}
  /\ cand' = [cand EXCEPT ![t] = 0]
  /\ wire' = IF sock = "open" THEN Append(wire, GenTagReply(resp[t], cand[t])) ELSE wire

\* parse_message stops inside gen_tag with a candidate that passed the test
GenTagTest(t) == \E tg \in TagDraws : cand' = [cand EXCEPT ![t] = tg]

\* the part of the state parse_message writes
ApplyPM(o) ==
  /\ wire' = o.wire /\ cbLog' = o.cbLog /\ todoLog' = o.todoLog
  /\ blocking' = o.blocking /\ use_keep_alive' = o.uka
  /\ kaSeen' = o.ka

(* ---------------------------- network ---------------------------------- *)
\* the peer sends one datagram out of D, at most n in one run
DeliverFrom(D, n) ==
  /\ sock = "open" /\ delivered < n /\ Len(inbox) < MaxQueue
  /\ \E m \in D : inbox' = Append(inbox, m)
  /\ delivered' = delivered + 1
  /\ UNCHANGED <<firstRequest,
                 inCallback,
                 data, message,
                 body_raw, todo, body,
                 headers_raw, headers,
                 built,
                 regTag, urnUUID,
                 cx, issued,
                 ibranch,
                 depth,
                 tags, cand,
                 kaSeen, firedKA,
                 my_public_ip, my_public_port,
                 NSD, use_keep_alive, callCallback, sock, blocking, recvLock,
                 registerThread, timers, callID, registerCounter, inviteCounter,
                 subscribeCounter, tagLibrary, pc, resp, icall, result, wire,
                 cbLog, todoLog, nInvites, nSubs, started, stopState,
                 socketsCreated, loopsSpawned>>

Deliver == DeliverFrom(Datagrams, MaxDeliver)

\* a server that answers a registration with 200 and an INVITE on the wire
\* with provisional and final responses carrying its Call-ID, and a peer
\* that ends a call
CallReplies ==
  {Resp(200, ForeignCallId), Req("BYE", ForeignCallId, "")}
  \cup {Resp(s, c) : s \in {100, 180, 200, 401, 404, 486, 503}, c \in InviteCallIds}

\* a registrar whose replies carry any of the Via pairs, or none, and which
\* may forward a call
ViaReplies ==
  {RespVia(s, ForeignCallId, v) : s \in RegStatuses, v \in 0..MaxVia}
  \cup {Req("INVITE", ForeignCallId, "")}
DeliverVia == DeliverFrom(ViaReplies, MaxDeliver)

\* a registrar that answers REGISTERs and may forward a call
RegReplies ==
  {Resp(s, ForeignCallId) : s \in RegStatuses} \cup {Req("INVITE", ForeignCallId, "")}
DeliverReg == DeliverFrom(RegReplies, MaxDeliverReg)

\* a registrar that may also reject a REGISTER as malformed, and that may
\* keep answering 500 for a whole run of retries
RetryReplies == RegReplies \cup {Resp(400, ForeignCallId)}
DeliverRetry == DeliverFrom(RetryReplies, MaxDeliverRetry)

\* a registrar, and a peer whose INVITE carries `Call-ID: register`
DeliverRing ==
  DeliverFrom(RegReplies \cup {Req("INVITE", RegisterKey, "")}, MaxDeliver)

(* ---------------------------- gen_call_id ------------------------------ *)
\* gen_call_id step by step, as the threads of one client run it: invite() on
\* an application thread calls it before it acquires recvLock (lines
\* 1370-1371), register() on a Timer thread calls it from
\* gen_first_response with recvLock held (lines 1482-1483).  The Call-ID is
\* the SHA-256 of the value drawn, which stands for it.
CallIdThreads == {Caller, Stopper} \cup TimerIds
AtRest(t) == IF t = Caller THEN "idle" ELSE "unborn"

\* a thread enters gen_call_id -> Counter.next -> Counter.count
GenCallIdCall(t) ==
  /\ pc[t] = AtRest(t)
  /\ LET inCount == {u \in CallIdThreads : pc[u] \in {"c_read", "c_incr"}}
     IN Len(issued) + Cardinality(inCount) < MaxDraws
  /\ IF t \in TimerIds THEN Acquire(t) ELSE UNCHANGED recvLock
  /\ pc' = [pc EXCEPT ![t] = "c_read"]
  /\ UNCHANGED <<firstRequest,
                 inCallback,
                 data, message,
                 body_raw, todo, body,
                 headers_raw, headers,
                 built,
                 regTag, urnUUID,
                 cx, issued, callID>>
  /\ UNCHANGED <<ibranch, depth, tags, cand, kaSeen, firedKA, my_public_ip,
                 my_public_port, NSD, use_keep_alive, callCallback, sock, blocking,
                 inbox, registerThread, timers, registerCounter, inviteCounter,
                 subscribeCounter, tagLibrary, resp, icall, result, wire, cbLog,
                 todoLog, delivered, nInvites, nSubs, started, stopState,
                 socketsCreated, loopsSpawned>>

\* line 44: x = self.x
CounterRead(t) ==
  /\ pc[t] = "c_read"
  /\ cx' = [cx EXCEPT ![t] = callID]
  /\ pc' = [pc EXCEPT ![t] = "c_incr"]
  /\ UNCHANGED <<firstRequest,
                 inCallback,
                 data, message,
                 body_raw, todo, body,
                 headers_raw, headers,
                 built,
                 regTag, urnUUID,
                 issued, callID, recvLock>>
  /\ UNCHANGED <<ibranch, depth, tags, cand, kaSeen, firedKA, my_public_ip,
                 my_public_port, NSD, use_keep_alive, callCallback, sock, blocking,
                 inbox, registerThread, timers, registerCounter, inviteCounter,
                 subscribeCounter, tagLibrary, resp, icall, result, wire, cbLog,
                 todoLog, delivered, nInvites, nSubs, started, stopState,
                 socketsCreated, loopsSpawned>>

\* lines 45-46: self.x += 1; return x
CounterIncr(t) ==
  /\ pc[t] = "c_incr"
  /\ callID' = callID + 1
  /\ issued' = Append(issued, cx[t])
  /\ cx' = [cx EXCEPT ![t] = 0]
  /\ pc' = [pc EXCEPT ![t] = AtRest(t)]
  /\ IF t \in TimerIds THEN Release ELSE UNCHANGED recvLock
  /\ UNCHANGED <<firstRequest,
                 inCallback,
                 data, message,
                 body_raw, todo, body,
                 headers_raw, headers,
                 built,
                 regTag, urnUUID,
                 ibranch, depth, tags, cand, kaSeen, firedKA, my_public_ip,
                 my_public_port, NSD, use_keep_alive, callCallback, sock, blocking,
                 inbox, registerThread, timers, registerCounter, inviteCounter,
                 subscribeCounter, tagLibrary, resp, icall, result, wire, cbLog,
                 todoLog, delivered, nInvites, nSubs, started, stopState,
                 socketsCreated, loopsSpawned>>

(* ---------------------------- register() ------------------------------- *)
\* `return self.register()` / `return self.deregister()` after a 500: one
\* more frame of the same function; the interpreter refuses the call with
\* RecursionError once its limit is reached
Enter(t) == depth' = [depth EXCEPT ![t] = 0]
Retry(t, lbl) ==
  IF depth[t] + 1 < RecursionLimit
    THEN /\ depth' = [depth EXCEPT ![t] = @ + 1]
         /\ Goto(t, lbl) /\ UNCHANGED <<result, stopState>>
    ELSE Raise(t, "RecursionError") /\ UNCHANGED depth

\* register() returns True: start() goes on to spawn the receive loop, a
\* Timer thread ends.
RegReturn(t) ==
  /\ pc' = [pc EXCEPT ![t] = IF t = Caller THEN "start_spawn" ELSE "done"]
  /\ result' = [result EXCEPT ![t] = IF t = Caller THEN result[t] ELSE "ok"]

\* where register() goes after a reply with status s has been read
\* (lines 1503-1513): 100 reads once more, 401 authenticates
AfterFirst(s) == IF s = 100 THEN "r_recv2" ELSE IF s = 401 THEN "r_auth" ELSE "r_final"
AfterSecond(s) == IF s = 401 THEN "r_auth" ELSE "r_final"

\* recvLock.acquire(), gen_first_response, send_message,
\* out.setblocking(False)  (lines 1482-1486 / 1427-1431)
RegSendFirst(t, lbl, next, exp) ==
  /\ pc[t] = lbl
  /\ Acquire(t)
  /\ callID' = callID + 1
  /\ registerCounter' = registerCounter + 1
  /\ IF sock = "open"
       THEN /\ wire' = Append(wire, Reg(exp, FALSE, callID, registerCounter))
            /\ blocking' = FALSE
            /\ Goto(t, next)
            /\ UNCHANGED <<result, stopState>>
       ELSE /\ Raise(t, SockErr)
            /\ UNCHANGED <<wire, blocking>>
  /\ issued' = Append(issued, callID)
  /\ UNCHANGED <<firstRequest,
                 inCallback,
                 data, message,
                 body_raw, todo, body,
                 headers_raw, headers,
                 built,
                 regTag, urnUUID,
                 cx,
                 ibranch,
                 depth,
                 tags, cand,
                 kaSeen, firedKA,
                 my_public_ip, my_public_port,
                 NSD, use_keep_alive, callCallback, sock, inbox,
                 registerThread, timers, inviteCounter, subscribeCounter,
                 tagLibrary, resp, icall, cbLog, todoLog, delivered, nInvites,
                 nSubs, started, socketsCreated, loopsSpawned>>

RegSend1(t) == RegSendFirst(t, "r_acquire", "r_wait1", default_expires)

\* The same two lines step by step.  Lines 1482-1483 and 1427-1428: the
\* lock is taken and gen_first_response builds the REGISTER, drawing its
\* CSeq from registerCounter (line 1039) and its Call-ID from callID
gen_first_response(t, lbl, next, exp) ==
  /\ pc[t] = lbl
  /\ Acquire(t)
  /\ callID' = callID + 1
  /\ registerCounter' = registerCounter + 1
  /\ issued' = Append(issued, callID)
  /\ firstRequest' = [firstRequest EXCEPT ![t] = Reg(exp, FALSE, callID, registerCounter)]
  /\ Goto(t, next)
  /\ UNCHANGED <<inCallback, data, message, body_raw, todo, body, headers_raw,
                 headers, built, regTag, urnUUID, cx, ibranch, depth, tags, cand,
                 kaSeen, firedKA, my_public_ip, my_public_port, NSD, use_keep_alive,
                 callCallback, sock, blocking, inbox, registerThread, timers,
                 inviteCounter, subscribeCounter, tagLibrary, resp, icall, result,
                 wire, cbLog, todoLog, delivered, nInvites, nSubs, started,
                 stopState, socketsCreated, loopsSpawned>>

\* lines 1484-1486 and 1429-1431: send_message(firstRequest), setblocking
send_message(t, lbl, next) ==
  /\ pc[t] = lbl
  /\ IF sock = "open"
       THEN /\ wire' = Append(wire, firstRequest[t])
            /\ blocking' = FALSE
            /\ Goto(t, next)
            /\ UNCHANGED <<result, stopState>>
       ELSE /\ Raise(t, SockErr)
            /\ UNCHANGED <<wire, blocking>>
  /\ UNCHANGED <<firstRequest, inCallback, data, message, body_raw, todo, body,
                 headers_raw, headers, built, regTag, urnUUID, cx, issued, ibranch,
                 depth, tags, cand, kaSeen, firedKA, my_public_ip, my_public_port,
                 NSD, use_keep_alive, callCallback, sock, inbox, recvLock,
                 registerThread, timers, callID, registerCounter, inviteCounter,
                 subscribeCounter, tagLibrary, resp, icall, cbLog, todoLog,
                 delivered, nInvites, nSubs, started, socketsCreated, loopsSpawned>>

\* recv and SIPMessage(resp), after select(timeout) when sel; after[s] is the
\* next position for status s, failErr the error raised for a status in
\* failStatus.  Without select an empty socket blocks when it is in blocking
\* mode and raises BlockingIOError otherwise.
SelectRecv(t, lbl, after, failStatus, failErr, sel) ==
  /\ pc[t] = lbl
  /\ \/ /\ sock = "open" /\ inbox # <<>>
        /\ inbox' = Tail(inbox)
        /\ IF ParseFails(Head(inbox))
             THEN Raise(t, "SIPParseError") /\ UNCHANGED resp
             ELSE /\ resp' = [resp EXCEPT ![t] = Head(inbox)]
                  /\ IF Head(inbox).type = "resp" /\ Head(inbox).status \in failStatus
                       THEN Raise(t, failErr)
                       ELSE Goto(t, after[Head(inbox).status]) /\ UNCHANGED <<result, stopState>>
     \/ /\ sock = "open" /\ inbox = <<>>
        /\ sel \/ ~blocking
        /\ Raise(t, IF sel THEN "TimeoutError" ELSE "BlockingIOError")
        /\ UNCHANGED <<inbox, resp>>
     \/ /\ sock # "open"
        /\ Raise(t, SockErr)
        /\ UNCHANGED <<inbox, resp>>
  /\ UNCHANGED <<firstRequest,
                 inCallback,
                 data, message,
                 body_raw, todo, body,
                 headers_raw, headers,
                 built,
                 regTag, urnUUID,
                 cx, issued,
                 ibranch,
                 depth,
                 tags, cand,
                 kaSeen, firedKA, NSD, use_keep_alive, callCallback, sock, blocking, recvLock,
                 registerThread, timers, callID, registerCounter, inviteCounter,
                 subscribeCounter, tagLibrary, icall, wire, cbLog, todoLog,
                 delivered, nInvites, nSubs, started, socketsCreated, loopsSpawned>>

\* lines 1496-1501: the Via of the message just parsed, when it carries both
\* received and rport
RecordVia ==
  IF sock = "open" /\ inbox # <<>> /\ ~ParseFails(Head(inbox)) /\ Head(inbox).via # 0
    THEN my_public_ip' = Head(inbox).via /\ my_public_port' = Head(inbox).via
    ELSE UNCHANGED <<my_public_ip, my_public_port>>

\* lines 1488-1501
RegWait1(t) ==
  /\ SelectRecv(t, "r_wait1", [s \in StatusCodes |-> AfterFirst(s)], {}, "", TRUE)
  /\ RecordVia
\* line 1504: recv on the non-blocking socket, no select
RegRecv2(t) ==
  /\ SelectRecv(t, "r_recv2", [s \in StatusCodes |-> AfterSecond(s)], {}, "", FALSE)
  /\ UNCHANGED <<firstRequest,
                 inCallback,
                 data, message,
                 body_raw, todo, body,
                 headers_raw, headers,
                 built,
                 regTag, urnUUID,
                 cx, issued,
                 ibranch,
                 depth,
                 tags, cand,
                 kaSeen, firedKA,
                 my_public_ip, my_public_port>>

\* gen_register + send_message (lines 1515-1516 / 1444-1445)
RegSendAuth(t, lbl, next, exp) ==
  /\ pc[t] = lbl
  /\ callID' = callID + 1
  /\ registerCounter' = registerCounter + 1
  /\ IF sock = "open"
       THEN /\ wire' = Append(wire, Reg(exp, TRUE, callID, registerCounter))
            /\ Goto(t, next)
            /\ UNCHANGED <<result, stopState>>
       ELSE /\ Raise(t, SockErr)
            /\ UNCHANGED wire
  /\ issued' = Append(issued, callID)
  /\ UNCHANGED <<firstRequest,
                 inCallback,
                 data, message,
                 body_raw, todo, body,
                 headers_raw, headers,
                 built,
                 regTag, urnUUID,
                 cx,
                 ibranch,
                 depth,
                 tags, cand,
                 kaSeen, firedKA,
                 my_public_ip, my_public_port,
                 NSD, use_keep_alive, callCallback, sock, blocking, inbox, recvLock,
                 registerThread, timers, inviteCounter, subscribeCounter,
                 tagLibrary, resp, icall, cbLog, todoLog, delivered, nInvites,
                 nSubs, started, socketsCreated, loopsSpawned>>

RegAuth(t) == RegSendAuth(t, "r_auth", "r_wait3", default_expires)

ToFinal(s) == "r_final"
\* lines 1522 / 1451: the statuses that fail the authenticated exchange
SecondUnauthorized_none == {}
SecondUnauthorized == {401}
\* lines 1517-1537: a second 401 raises InvalidAccountInfoError
RegWait3(t) ==
  /\ SelectRecv(t, "r_wait3", [s \in StatusCodes |-> ToFinal(s)], SecondUnauthorized, "InvalidAccountInfoError", TRUE)
  /\ UNCHANGED <<firstRequest,
                 inCallback,
                 data, message,
                 body_raw, todo, body,
                 headers_raw, headers,
                 built,
                 regTag, urnUUID,
                 cx, issued,
                 ibranch,
                 depth,
                 tags, cand,
                 kaSeen, firedKA,
                 my_public_ip, my_public_port>>

\* lines 1545-1558
RegFinal(t) ==
  /\ pc[t] = "r_final"
  /\ LET st == IF resp[t].type = "resp" THEN resp[t].status ELSE 491 IN
     IF st \in {400, 401, 407}
       THEN /\ Release /\ Goto(t, "r_timer")
            /\ UNCHANGED <<wire, cbLog, todoLog, kaSeen, blocking, use_keep_alive, result,
                           stopState, cand, depth>>
       ELSE IF st = 500
         THEN \* release, sleep 5 s, return self.register()
              /\ Release /\ Retry(t, "r_acquire")
              /\ UNCHANGED <<wire, cbLog, todoLog, kaSeen, blocking, use_keep_alive, cand>>
         ELSE \E cbr \in CbChoices :
              LET o == parse_message(resp[t], cbr) IN
              /\ ApplyPM(o)
              /\ UNCHANGED depth
              /\ IF o.gentag
                   THEN /\ GenTagTest(t) /\ Goto(t, "r_gentag")
                        /\ UNCHANGED <<recvLock, result, stopState>>
                   ELSE /\ UNCHANGED cand
                        /\ IF o.exc # ""
                             THEN Raise(t, o.exc) /\ UNCHANGED recvLock
                             ELSE Release /\ Goto(t, "r_timer") /\ UNCHANGED <<result, stopState>>
  /\ UNCHANGED <<firstRequest,
                 inCallback,
                 data, message,
                 body_raw, todo, body,
                 headers_raw, headers,
                 built,
                 regTag, urnUUID,
                 cx, issued,
                 ibranch,
                 tags,
                 firedKA, my_public_ip, my_public_port,
                 NSD, callCallback, sock, inbox, registerThread, timers, callID,
                 registerCounter, inviteCounter, subscribeCounter, tagLibrary,
                 resp, icall, delivered, nInvites, nSubs, started,
                 socketsCreated, loopsSpawned>>

\* line 1556, parse_message inside gen_tag: append the tag, send the reply
RegGenTag(t) ==
  /\ pc[t] = "r_gentag"
  /\ GenTagSend(t)
  /\ IF sock = "open"
       THEN Release /\ Goto(t, "r_timer") /\ UNCHANGED <<result, stopState>>
       ELSE Raise(t, SockErr) /\ UNCHANGED recvLock
  /\ UNCHANGED <<firstRequest,
                 inCallback,
                 data, message,
                 body_raw, todo, body,
                 headers_raw, headers,
                 built,
                 regTag, urnUUID,
                 cx, issued,
                 ibranch,
                 depth,
                 kaSeen, firedKA, my_public_ip, my_public_port,
                 NSD, use_keep_alive, callCallback, sock, blocking, inbox,
                 registerThread, timers, callID, registerCounter, inviteCounter,
                 subscribeCounter, tagLibrary, resp, icall, cbLog, todoLog,
                 delivered, nInvites, nSubs, started, socketsCreated, loopsSpawned>>

\* lines 1559-1572
RegTimer(t) ==
  /\ pc[t] = "r_timer"
  /\ IF resp[t].type = "resp" /\ resp[t].status = 200
       THEN IF NSD THEN Goto(t, "r_mktimer") /\ UNCHANGED <<result, stopState>>
                   ELSE RegReturn(t) /\ UNCHANGED stopState
       ELSE Raise(t, "InvalidAccountInfoError")
  /\ UNCHANGED <<firstRequest,
                 inCallback,
                 data, message,
                 body_raw, todo, body,
                 headers_raw, headers,
                 built,
                 regTag, urnUUID,
                 cx, issued,
                 ibranch,
                 depth,
                 tags, cand,
                 kaSeen, firedKA,
                 my_public_ip, my_public_port,
                 NSD, use_keep_alive, callCallback, sock, blocking, inbox, recvLock,
                 registerThread, timers, callID, registerCounter, inviteCounter,
                 subscribeCounter, tagLibrary, resp, icall, wire, cbLog, todoLog,
                 delivered, nInvites, nSubs, started, socketsCreated, loopsSpawned>>

\* line 1564: self.registerThread = Timer(default_expires - 5, ...)
RegMkTimer(t) ==
  /\ pc[t] = "r_mktimer"
  /\ \E id \in TimerIds :
       /\ timers[id] = "unused"
       /\ \A j \in TimerIds : j < id => timers[j] # "unused"
       /\ timers' = [timers EXCEPT ![id] = "created"]
       /\ registerThread' = id
  /\ Goto(t, "r_starttimer")
  /\ UNCHANGED <<firstRequest,
                 inCallback,
                 data, message,
                 body_raw, todo, body,
                 headers_raw, headers,
                 built,
                 regTag, urnUUID,
                 cx, issued,
                 ibranch,
                 depth,
                 tags, cand,
                 kaSeen, firedKA,
                 my_public_ip, my_public_port,
                 NSD, use_keep_alive, callCallback, sock, blocking, inbox, recvLock,
                 callID, registerCounter, inviteCounter, subscribeCounter,
                 tagLibrary, resp, icall, result, wire, cbLog, todoLog, delivered,
                 nInvites, nSubs, started, stopState, socketsCreated, loopsSpawned>>

\* line 1567: self.registerThread.start(); a cancelled Timer never fires
RegStartTimer(t) ==
  /\ pc[t] = "r_starttimer"
  /\ timers' = [timers EXCEPT ![registerThread] =
                  IF @ = "created" THEN "pending" ELSE @]
  /\ RegReturn(t)
  /\ UNCHANGED <<firstRequest,
                 inCallback,
                 data, message,
                 body_raw, todo, body,
                 headers_raw, headers,
                 built,
                 regTag, urnUUID,
                 cx, issued,
                 ibranch,
                 depth,
                 tags, cand,
                 kaSeen, firedKA,
                 my_public_ip, my_public_port,
                 NSD, use_keep_alive, callCallback, sock, blocking, inbox, recvLock,
                 registerThread, callID, registerCounter, inviteCounter,
                 subscribeCounter, tagLibrary, resp, icall, wire, cbLog, todoLog,
                 delivered, nInvites, nSubs, started, stopState, socketsCreated,
                 loopsSpawned>>

Register(t) ==
  \/ RegSend1(t) \/ RegWait1(t) \/ RegRecv2(t) \/ RegAuth(t)
  \/ RegWait3(t) \/ RegFinal(t) \/ RegGenTag(t)
  \/ RegTimer(t) \/ RegMkTimer(t) \/ RegStartTimer(t)

(* ---------------------------- deregister() ----------------------------- *)
DeregAfterFirst(s) == IF s = 401 THEN "d_auth" ELSE "d_final"
DeregToFinal(s) == "d_final"

\* gen_first_response(deregister=True): Expires: 0
DeregSend1(t) == RegSendFirst(t, "d_acquire", "d_wait1", 0)
DeregWait1(t) ==
  /\ SelectRecv(t, "d_wait1", [s \in StatusCodes |-> DeregAfterFirst(s)], {}, "", TRUE)
  /\ UNCHANGED <<firstRequest,
                 inCallback,
                 data, message,
                 body_raw, todo, body,
                 headers_raw, headers,
                 built,
                 regTag, urnUUID,
                 cx, issued,
                 ibranch,
                 depth,
                 tags, cand,
                 kaSeen, firedKA,
                 my_public_ip, my_public_port>>
\* gen_register(response, deregister=True): Expires: 0
DeregAuth(t) == RegSendAuth(t, "d_auth", "d_wait2", 0)
DeregWait2(t) ==
  /\ SelectRecv(t, "d_wait2", [s \in StatusCodes |-> DeregToFinal(s)], SecondUnauthorized, "InvalidAccountInfoError", TRUE)
  /\ UNCHANGED <<firstRequest,
                 inCallback,
                 data, message,
                 body_raw, todo, body,
                 headers_raw, headers,
                 built,
                 regTag, urnUUID,
                 cx, issued,
                 ibranch,
                 depth,
                 tags, cand,
                 kaSeen, firedKA,
                 my_public_ip, my_public_port>>

\* lines 1468-1477
DeregFinal(t) ==
  /\ pc[t] = "d_final"
  /\ Release
  /\ IF resp[t].type = "resp" /\ resp[t].status = 500
       THEN Retry(t, "d_acquire")
       ELSE Goto(t, "stop_close") /\ UNCHANGED <<depth, result, stopState>>
  /\ UNCHANGED <<firstRequest,
                 inCallback,
                 data, message,
                 body_raw, todo, body,
                 headers_raw, headers,
                 built,
                 regTag, urnUUID,
                 cx, issued,
                 ibranch,
                 tags, cand,
                 kaSeen, firedKA,
                 my_public_ip, my_public_port,
                 NSD, use_keep_alive, callCallback, sock, blocking, inbox,
                 registerThread, timers, callID, registerCounter, inviteCounter,
                 subscribeCounter, tagLibrary, resp, icall, wire, cbLog,
                 todoLog, delivered, nInvites, nSubs, started,
                 socketsCreated, loopsSpawned>>

Deregister(t) ==
  \/ DeregSend1(t) \/ DeregWait1(t) \/ DeregAuth(t) \/ DeregWait2(t) \/ DeregFinal(t)

(* ---------------------------- start() / stop() ------------------------- *)
\* the application may call an operation when it is not inside one and has
\* not called stop(); it calls start() before anything else
AppIdle == pc[Caller] = "idle" /\ stopState = "no"
AppReady == AppIdle /\ sock # "none"

\* line 917
AlreadyStarted_never == FALSE
AlreadyStarted == NSD

\* lines 917-923: the check, NSD = True, socket(), bind() (which may fail)
Start ==
  /\ AppIdle
  /\ IF AlreadyStarted
       THEN /\ Raise(Caller, "RuntimeError")
            /\ UNCHANGED <<NSD, sock, blocking, inbox, socketsCreated>>
       ELSE /\ NSD' = TRUE
            /\ sock' = "open" /\ blocking' = TRUE /\ inbox' = <<>>
            /\ socketsCreated' = socketsCreated + 1
            /\ \/ Goto(Caller, "r_acquire") /\ UNCHANGED <<result, stopState>>
               \/ Raise(Caller, "OSError")
  /\ Enter(Caller)
  /\ UNCHANGED <<firstRequest,
                 inCallback,
                 data, message,
                 body_raw, todo, body,
                 headers_raw, headers,
                 built,
                 regTag, urnUUID,
                 cx, issued,
                 ibranch,
                 tags, cand,
                 kaSeen, firedKA,
                 my_public_ip, my_public_port,
                 use_keep_alive, callCallback, recvLock, registerThread, timers,
                 callID, registerCounter, inviteCounter, subscribeCounter,
                 tagLibrary, resp, icall, wire, cbLog, todoLog, delivered,
                 nInvites, nSubs, started, loopsSpawned>>

\* start() on a client whose stop() has returned: lines 917-923 with NSD
\* False again
Restart ==
  /\ pc[Caller] = "idle" /\ stopState = "returned" /\ socketsCreated < MaxStarts
  /\ ~AlreadyStarted
  /\ NSD' = TRUE
  /\ sock' = "open" /\ blocking' = TRUE /\ inbox' = <<>>
  /\ socketsCreated' = socketsCreated + 1
  /\ stopState' = "no"
  /\ Goto(Caller, "r_acquire")
  /\ Enter(Caller)
  /\ UNCHANGED <<firstRequest,
                 inCallback,
                 data, message,
                 body_raw, todo, body,
                 headers_raw, headers,
                 built,
                 regTag, urnUUID,
                 cx, issued,
                 ibranch,
                 tags, cand,
                 kaSeen, firedKA,
                 my_public_ip, my_public_port, use_keep_alive, callCallback,
                 recvLock, registerThread, timers, callID, registerCounter,
                 inviteCounter, subscribeCounter, tagLibrary, resp, icall, result,
                 wire, cbLog, todoLog, delivered, nInvites, nSubs, started,
                 loopsSpawned>>

\* lines 925-927: Timer(1, self.recv).start()
StartSpawn ==
  /\ pc[Caller] = "start_spawn"
  /\ pc' = [pc EXCEPT ![Caller] = "idle",
                      ![Loop] = IF pc[Loop] \in {"unborn", "done", "dead"}
                                  THEN "l_test" ELSE @]
  /\ loopsSpawned' = loopsSpawned + 1
  /\ result' = [result EXCEPT ![Caller] = "ok"]
  /\ started' = TRUE
  /\ UNCHANGED <<firstRequest,
                 inCallback,
                 data, message,
                 body_raw, todo, body,
                 headers_raw, headers,
                 built,
                 regTag, urnUUID,
                 cx, issued,
                 ibranch,
                 depth,
                 tags, cand,
                 kaSeen, firedKA,
                 my_public_ip, my_public_port,
                 NSD, use_keep_alive, callCallback, sock, blocking, inbox, recvLock,
                 registerThread, timers, callID, registerCounter, inviteCounter,
                 subscribeCounter, tagLibrary, resp, icall, wire, cbLog, todoLog,
                 delivered, nInvites, nSubs, stopState, socketsCreated>>

\* line 932
CallStop ==
  /\ AppReady
  /\ NSD' = FALSE
  /\ stopState' = "active"
  /\ Goto(Caller, "stop_cancel")
  /\ UNCHANGED <<firstRequest,
                 inCallback,
                 data, message,
                 body_raw, todo, body,
                 headers_raw, headers,
                 built,
                 regTag, urnUUID,
                 cx, issued,
                 ibranch,
                 depth,
                 tags, cand,
                 kaSeen, firedKA,
                 my_public_ip, my_public_port,
                 use_keep_alive, callCallback, sock, blocking, inbox, recvLock,
                 registerThread, timers, callID, registerCounter, inviteCounter,
                 subscribeCounter, tagLibrary, resp, icall, result, wire, cbLog,
                 todoLog, delivered, nInvites, nSubs, started, socketsCreated,
                 loopsSpawned>>

\* positions of the application thread inside invite()
InvitePcs == {"i_geninvite", "i_acquire", "i_recv", "i_disp", "i_gentag", "i_ack",
              "i_auth", "i_release"}

\* line 932, stop() called on the started client by a second application
\* thread while the first is inside invite()
CallStopAsync ==
  /\ pc[Stopper] = "unborn" /\ stopState = "no"
  /\ started /\ pc[Caller] \in InvitePcs
  /\ NSD' = FALSE
  /\ stopState' = "active"
  /\ Goto(Stopper, "stop_cancel")
  /\ UNCHANGED <<firstRequest,
                 inCallback,
                 data, message,
                 body_raw, todo, body,
                 headers_raw, headers,
                 built,
                 regTag, urnUUID,
                 cx, issued,
                 ibranch,
                 depth,
                 tags, cand, kaSeen, firedKA, my_public_ip, my_public_port,
                 use_keep_alive, callCallback, sock, blocking, inbox, recvLock,
                 registerThread, timers, callID, registerCounter, inviteCounter,
                 subscribeCounter, tagLibrary, resp, icall, result, wire, cbLog,
                 todoLog, delivered, nInvites, nSubs, started, socketsCreated,
                 loopsSpawned>>

\* Timer.cancel(): a Timer that has not fired never will
Cancelled(st) == IF st \in {"created", "pending"} THEN "cancelled" ELSE st

\* lines 933-936
StopCancel(t) ==
  /\ pc[t] = "stop_cancel"
  /\ use_keep_alive' = FALSE
  /\ IF registerThread # 0
       THEN /\ timers' = [timers EXCEPT ![registerThread] = Cancelled(@)]
            /\ Goto(t, "d_acquire")
       ELSE /\ UNCHANGED timers
            /\ Goto(t, "stop_close")
  /\ Enter(t)
  /\ UNCHANGED <<firstRequest,
                 inCallback,
                 data, message,
                 body_raw, todo, body,
                 headers_raw, headers,
                 built,
                 regTag, urnUUID,
                 cx, issued,
                 ibranch,
                 tags, cand,
                 kaSeen, firedKA,
                 my_public_ip, my_public_port,
                 NSD, callCallback, sock, blocking, inbox, recvLock,
                 registerThread, callID, registerCounter, inviteCounter,
                 subscribeCounter, tagLibrary, resp, icall, result, wire, cbLog,
                 todoLog, delivered, nInvites, nSubs, started, stopState,
                 socketsCreated, loopsSpawned>>

\* _close_sockets (lines 940-946), then stop() returns
StopClose(t) ==
  /\ pc[t] = "stop_close"
  /\ sock' = "closed" /\ inbox' = <<>>
  /\ Goto(t, IF t = Caller THEN "idle" ELSE "done")
  /\ result' = [result EXCEPT ![t] = "ok"]
  /\ stopState' = "returned"
  /\ UNCHANGED <<firstRequest,
                 inCallback,
                 data, message,
                 body_raw, todo, body,
                 headers_raw, headers,
                 built,
                 regTag, urnUUID,
                 cx, issued,
                 ibranch,
                 depth,
                 tags, cand,
                 kaSeen, firedKA,
                 my_public_ip, my_public_port,
                 NSD, use_keep_alive, callCallback, blocking, recvLock,
                 registerThread, timers, callID, registerCounter, inviteCounter,
                 subscribeCounter, tagLibrary, resp, icall, wire, cbLog, todoLog,
                 delivered, nInvites, nSubs, started, socketsCreated, loopsSpawned>>

(* ---------------------------- invite() --------------------------------- *)
\* lines 1370-1373: two draws from callID (branch, call_id); gen_invite
\* enters gen_tag, outside the lock, and finds a tag that passes the test
CallInvite ==
  /\ AppReady /\ nInvites < MaxInvites
  /\ nInvites' = nInvites + 1
  /\ ibranch' = Branch(callID)
  /\ icall' = callID + 1
  /\ callID' = callID + 2
  /\ GenTagTest(Caller)
  /\ Goto(Caller, "i_geninvite")
  /\ issued' = issued \o <<callID, callID + 1>>
  /\ UNCHANGED <<firstRequest,
                 inCallback,
                 data, message,
                 body_raw, todo, body,
                 headers_raw, headers,
                 built,
                 regTag, urnUUID,
                 cx,
                 depth,
                 tags, inviteCounter, tagLibrary,
                 kaSeen, firedKA,
                 my_public_ip, my_public_port,
                 NSD, use_keep_alive, callCallback, sock, blocking, inbox, recvLock,
                 registerThread, timers, registerCounter, subscribeCounter, resp,
                 result, wire, cbLog, todoLog, delivered, nSubs, started,
                 stopState, socketsCreated, loopsSpawned>>

\* lines 970-971 and 1274-1283: the tag is appended and stored under
\* call_id, the CSeq is drawn
InvGenInvite ==
  /\ pc[Caller] = "i_geninvite"
  /\ tags' = tags \cup {cand[Caller]}
  /\ cand' = [cand EXCEPT ![Caller] = 0]
  /\ inviteCounter' = inviteCounter + 1
  /\ tagLibrary' = Store(icall, cand[Caller])
  /\ Goto(Caller, "i_acquire")
  /\ UNCHANGED <<firstRequest,
                 inCallback,
                 data, message,
                 body_raw, todo, body,
                 headers_raw, headers,
                 built,
                 regTag, urnUUID,
                 cx, issued,
                 ibranch,
                 depth,
                 kaSeen, firedKA, my_public_ip, my_public_port,
                 NSD, use_keep_alive, callCallback, sock, blocking, inbox, recvLock,
                 registerThread, timers, callID, registerCounter, subscribeCounter,
                 resp, icall, result, wire, cbLog, todoLog, delivered, nInvites,
                 nSubs, started, stopState, socketsCreated, loopsSpawned>>

\* send_message of one request built by the caller thread
CallerSend(lbl, next, msg) ==
  /\ pc[Caller] = lbl
  /\ IF sock = "open"
       THEN /\ wire' = Append(wire, msg)
            /\ Goto(Caller, next)
            /\ UNCHANGED <<result, stopState>>
       ELSE /\ Raise(Caller, SockErr)
            /\ UNCHANGED wire

\* lines 1375-1376
InvSend ==
  /\ Acquire(Caller)
  /\ CallerSend("i_acquire", "i_recv", gen_invite(icall, ibranch, tagLibrary[icall]))
  /\ UNCHANGED <<firstRequest,
                 inCallback,
                 data, message,
                 body_raw, todo, body,
                 headers_raw, headers,
                 built,
                 regTag, urnUUID,
                 cx, issued,
                 ibranch,
                 depth,
                 tags, cand,
                 kaSeen, firedKA,
                 my_public_ip, my_public_port,
                 NSD, use_keep_alive, callCallback, sock, blocking, inbox,
                 registerThread, timers, callID, registerCounter, inviteCounter,
                 subscribeCounter, tagLibrary, resp, icall, cbLog, todoLog,
                 delivered, nInvites, nSubs, started, socketsCreated, loopsSpawned>>

ToDisp(s) == "i_disp"
\* lines 1378 and 1388
InvRecv ==
  /\ SelectRecv(Caller, "i_recv", [s \in StatusCodes |-> ToDisp(s)], {}, "", FALSE)
  /\ UNCHANGED <<firstRequest,
                 inCallback,
                 data, message,
                 body_raw, todo, body,
                 headers_raw, headers,
                 built,
                 regTag, urnUUID,
                 cx, issued,
                 ibranch,
                 depth,
                 tags, cand,
                 kaSeen, firedKA,
                 my_public_ip, my_public_port>>

\* the while condition of lines 1381-1384
Awaited(m, cid) == m.status \in {401, 100, 180} /\ m.callid = cid

\* lines 1381-1393: dispatch everything but the awaited reply; return on
\* 100 / 180
InvDisp ==
  /\ pc[Caller] = "i_disp"
  /\ IF ~Awaited(resp[Caller], icall) /\ NSD
       THEN \E cbr \in CbChoices :
            LET o == parse_message(resp[Caller], cbr) IN
            /\ ApplyPM(o)
            /\ IF o.gentag
                 THEN /\ GenTagTest(Caller) /\ Goto(Caller, "i_gentag")
                      /\ UNCHANGED <<result, stopState>>
                 ELSE /\ UNCHANGED cand
                      /\ IF o.exc # "" THEN Raise(Caller, o.exc)
                         ELSE Goto(Caller, "i_recv") /\ UNCHANGED <<result, stopState>>
       ELSE /\ UNCHANGED <<wire, cbLog, todoLog, kaSeen, blocking, use_keep_alive, stopState,
                           cand>>
            /\ IF resp[Caller].status \in {100, 180}
                 THEN /\ Goto(Caller, "idle")
                      /\ result' = [result EXCEPT ![Caller] = "ok"]
                 ELSE Goto(Caller, "i_ack") /\ UNCHANGED result
  /\ UNCHANGED <<firstRequest,
                 inCallback,
                 data, message,
                 body_raw, todo, body,
                 headers_raw, headers,
                 built,
                 regTag, urnUUID,
                 cx, issued,
                 ibranch,
                 depth,
                 tags,
                 firedKA, my_public_ip, my_public_port,
                 NSD, callCallback, sock, inbox, recvLock, registerThread, timers,
                 callID, registerCounter, inviteCounter, subscribeCounter,
                 tagLibrary, resp, icall, delivered, nInvites, nSubs, started,
                 socketsCreated, loopsSpawned>>

\* line 1387, parse_message inside gen_tag: append the tag, send the reply
InvDispGenTag ==
  /\ pc[Caller] = "i_gentag"
  /\ GenTagSend(Caller)
  /\ IF sock = "open"
       THEN Goto(Caller, "i_recv") /\ UNCHANGED <<result, stopState>>
       ELSE Raise(Caller, SockErr)
  /\ UNCHANGED <<firstRequest,
                 inCallback,
                 data, message,
                 body_raw, todo, body,
                 headers_raw, headers,
                 built,
                 regTag, urnUUID,
                 cx, issued,
                 ibranch,
                 depth,
                 kaSeen, firedKA, my_public_ip, my_public_port,
                 NSD, use_keep_alive, callCallback, sock, blocking, inbox, recvLock,
                 registerThread, timers, callID, registerCounter, inviteCounter,
                 subscribeCounter, tagLibrary, resp, icall, cbLog, todoLog,
                 delivered, nInvites, nSubs, started, socketsCreated, loopsSpawned>>

\* lines 1395-1396: gen_ack looks the Call-ID up in tagLibrary, then calls
\* gen_tag
InvAck ==
  /\ pc[Caller] = "i_ack"
  /\ IF resp[Caller].callid \in DOMAIN tagLibrary
       THEN \E tg \in TagDraws :
            /\ gen_tag(tg)
            /\ CallerSend("i_ack", "i_auth", gen_ack(resp[Caller], tg))
       ELSE Raise(Caller, "KeyError") /\ UNCHANGED <<wire, tags>>
  /\ UNCHANGED <<firstRequest,
                 inCallback,
                 data, message,
                 body_raw, todo, body,
                 headers_raw, headers,
                 built,
                 regTag, urnUUID,
                 cx, issued,
                 ibranch,
                 depth,
                 cand,
                 kaSeen, firedKA,
                 my_public_ip, my_public_port,
                 NSD, use_keep_alive, callCallback, sock, blocking, inbox, recvLock,
                 registerThread, timers, callID, registerCounter, inviteCounter,
                 subscribeCounter, tagLibrary, resp, icall, cbLog, todoLog,
                 delivered, nInvites, nSubs, started, socketsCreated, loopsSpawned>>

\* lines 1398-1411: only a 401 carries the challenge gen_authorization reads;
\* the second gen_invite draws a tag and stores it under call_id again
InvAuth ==
  /\ pc[Caller] = "i_auth"
  /\ IF resp[Caller].type = "resp" /\ resp[Caller].status = 401
       THEN \E tg \in TagDraws :
            /\ gen_tag(tg)
            /\ tagLibrary' = Store(icall, tg)
            /\ inviteCounter' = inviteCounter + 1
            /\ CallerSend("i_auth", "i_release",
                          [gen_invite(icall, ibranch, tg) EXCEPT !.auth = TRUE,
                                                          !.lines = InsertAuth(@)])
       ELSE Raise(Caller, "KeyError")
            /\ UNCHANGED <<wire, inviteCounter, tags, tagLibrary>>
  /\ UNCHANGED <<firstRequest,
                 inCallback,
                 data, message,
                 body_raw, todo, body,
                 headers_raw, headers,
                 built,
                 regTag, urnUUID,
                 cx, issued,
                 ibranch,
                 depth,
                 cand,
                 kaSeen, firedKA,
                 my_public_ip, my_public_port,
                 NSD, use_keep_alive, callCallback, sock, blocking, inbox, recvLock,
                 registerThread, timers, callID, registerCounter,
                 subscribeCounter, resp, icall, cbLog, todoLog,
                 delivered, nInvites, nSubs, started, socketsCreated, loopsSpawned>>

\* lines 1413-1415
InvRelease ==
  /\ pc[Caller] = "i_release"
  /\ Release
  /\ Goto(Caller, "idle")
  /\ result' = [result EXCEPT ![Caller] = "ok"]
  /\ UNCHANGED <<firstRequest,
                 inCallback,
                 data, message,
                 body_raw, todo, body,
                 headers_raw, headers,
                 built,
                 regTag, urnUUID,
                 cx, issued,
                 ibranch,
                 depth,
                 tags, cand,
                 kaSeen, firedKA,
                 my_public_ip, my_public_port,
                 NSD, use_keep_alive, callCallback, sock, blocking, inbox,
                 registerThread, timers, callID, registerCounter, inviteCounter,
                 subscribeCounter, tagLibrary, resp, icall, wire, cbLog, todoLog,
                 delivered, nInvites, nSubs, started, stopState, socketsCreated,
                 loopsSpawned>>

(* ---------------------------- subscribe() ------------------------------ *)
CallSubscribe ==
  /\ AppReady /\ nSubs < MaxSubscribes
  /\ nSubs' = nSubs + 1
  /\ Goto(Caller, "s_acquire")
  /\ UNCHANGED <<firstRequest,
                 inCallback,
                 data, message,
                 body_raw, todo, body,
                 headers_raw, headers,
                 built,
                 regTag, urnUUID,
                 cx, issued,
                 ibranch,
                 depth,
                 tags, cand,
                 kaSeen, firedKA,
                 my_public_ip, my_public_port,
                 NSD, use_keep_alive, callCallback, sock, blocking, inbox, recvLock,
                 registerThread, timers, callID, registerCounter, inviteCounter,
                 subscribeCounter, tagLibrary, resp, icall, result, wire, cbLog,
                 todoLog, delivered, nInvites, started, stopState, socketsCreated,
                 loopsSpawned>>

\* lines 1594-1596
SubSend ==
  /\ Acquire(Caller)
  /\ CallerSend("s_acquire", "s_recv", Out("SUBSCRIBE", ForeignCallId, FALSE))
  /\ subscribeCounter' = subscribeCounter + 1
  /\ \E tg \in TagDraws : gen_tag(tg)
  /\ UNCHANGED <<firstRequest,
                 inCallback,
                 data, message,
                 body_raw, todo, body,
                 headers_raw, headers,
                 built,
                 regTag, urnUUID,
                 cx, issued,
                 ibranch,
                 depth,
                 cand,
                 kaSeen, firedKA,
                 my_public_ip, my_public_port,
                 NSD, use_keep_alive, callCallback, sock, blocking, inbox,
                 registerThread, timers, callID, registerCounter, inviteCounter,
                 tagLibrary, resp, icall, cbLog, todoLog, delivered, nInvites,
                 nSubs, started, socketsCreated, loopsSpawned>>

ToSubRelease(s) == "s_release"
\* line 1597
SubRecv ==
  /\ SelectRecv(Caller, "s_recv", [s \in StatusCodes |-> ToSubRelease(s)], {}, "", FALSE)
  /\ UNCHANGED <<firstRequest,
                 inCallback,
                 data, message,
                 body_raw, todo, body,
                 headers_raw, headers,
                 built,
                 regTag, urnUUID,
                 cx, issued,
                 ibranch,
                 depth,
                 tags, cand,
                 kaSeen, firedKA,
                 my_public_ip, my_public_port>>

\* line 1601
SubRelease ==
  /\ pc[Caller] = "s_release"
  /\ Release
  /\ Goto(Caller, "idle")
  /\ result' = [result EXCEPT ![Caller] = "ok"]
  /\ UNCHANGED <<firstRequest,
                 inCallback,
                 data, message,
                 body_raw, todo, body,
                 headers_raw, headers,
                 built,
                 regTag, urnUUID,
                 cx, issued,
                 ibranch,
                 depth,
                 tags, cand,
                 kaSeen, firedKA,
                 my_public_ip, my_public_port,
                 NSD, use_keep_alive, callCallback, sock, blocking, inbox,
                 registerThread, timers, callID, registerCounter, inviteCounter,
                 subscribeCounter, tagLibrary, resp, icall, wire, cbLog, todoLog,
                 delivered, nInvites, nSubs, started, stopState, socketsCreated,
                 loopsSpawned>>

(* ---------------------------- gen_ringing ------------------------------ *)
\* lines 1174-1194: the application, handed an INVITE by callCallback, has
\* the client build the 180 Ringing for it, once for a Call-ID; the tag is
\* stored under the request's Call-ID
gen_ringing ==
  /\ \E i \in 1..Len(cbLog) :
       /\ cbLog[i].type = "req" /\ cbLog[i].method = "INVITE"
       /\ cbLog[i].callid \notin DOMAIN tagLibrary
       /\ \E tg \in TagDraws :
            /\ gen_tag(tg)
            /\ tagLibrary' = Store(cbLog[i].callid, tg)
            /\ regTag' = IF cbLog[i].callid = RegisterKey THEN tg ELSE regTag
  /\ UNCHANGED <<firstRequest,
                 inCallback,
                 data, message,
                 body_raw, todo, body,
                 headers_raw, headers,
                 built,
                 cx, issued, ibranch, depth, cand, kaSeen, firedKA, my_public_ip,
                 my_public_port, NSD, use_keep_alive, callCallback, sock, blocking,
                 inbox, recvLock, registerThread, timers, callID, registerCounter,
                 inviteCounter, subscribeCounter, pc, resp, icall, result, wire,
                 cbLog, todoLog, delivered, nInvites, nSubs, started, stopState,
                 socketsCreated, loopsSpawned, urnUUID>>

(* ---------------------------- recv(): the receive loop ----------------- *)
\* the thread dies with an uncaught exception
LoopDies(e) ==
  /\ pc' = [pc EXCEPT ![Loop] = "dead"]
  /\ result' = [result EXCEPT ![Loop] = e]

\* line 821
LoopTest ==
  /\ pc[Loop] = "l_test"
  /\ Goto(Loop, IF NSD THEN "l_acquire" ELSE "done")
  /\ UNCHANGED <<firstRequest,
                 inCallback,
                 data, message,
                 body_raw, todo, body,
                 headers_raw, headers,
                 built,
                 regTag, urnUUID,
                 cx, issued,
                 ibranch,
                 depth,
                 tags, cand,
                 kaSeen, firedKA,
                 my_public_ip, my_public_port,
                 NSD, use_keep_alive, callCallback, sock, blocking, inbox, recvLock,
                 registerThread, timers, callID, registerCounter, inviteCounter,
                 subscribeCounter, tagLibrary, resp, icall, result, wire, cbLog,
                 todoLog, delivered, nInvites, nSubs, started, stopState,
                 socketsCreated, loopsSpawned>>

\* lines 822-823: setblocking(False) is outside the try
LoopAcquire ==
  /\ pc[Loop] = "l_acquire"
  /\ Acquire(Loop)
  /\ IF sock = "open"
       THEN blocking' = FALSE /\ Goto(Loop, "l_recv") /\ UNCHANGED result
       ELSE LoopDies(SockErr) /\ UNCHANGED blocking
  /\ UNCHANGED <<firstRequest,
                 inCallback,
                 data, message,
                 body_raw, todo, body,
                 headers_raw, headers,
                 built,
                 regTag, urnUUID,
                 cx, issued,
                 ibranch,
                 depth,
                 tags, cand,
                 kaSeen, firedKA,
                 my_public_ip, my_public_port,
                 NSD, use_keep_alive, callCallback, sock, inbox, registerThread,
                 timers, callID, registerCounter, inviteCounter, subscribeCounter,
                 tagLibrary, resp, icall, wire, cbLog, todoLog, delivered,
                 nInvites, nSubs, started, stopState, socketsCreated, loopsSpawned>>

\* lines 824-852
LoopRecv ==
  /\ pc[Loop] = "l_recv"
  /\ \/ \* a datagram: SIPMessage + parse_message, every exception swallowed
        /\ sock = "open" /\ inbox # <<>>
        /\ inbox' = Tail(inbox)
        /\ IF ParseFails(Head(inbox))
             THEN /\ Goto(Loop, "l_fin")
                  /\ UNCHANGED <<wire, cbLog, todoLog, kaSeen, blocking, use_keep_alive,
                                 cand, resp>>
             ELSE \E cbr \in CbChoices :
                  LET o == parse_message(Head(inbox), cbr) IN
                  /\ ApplyPM(o)
                  /\ IF o.gentag
                       THEN /\ GenTagTest(Loop)
                            /\ resp' = [resp EXCEPT ![Loop] = Head(inbox)]
                            /\ Goto(Loop, "l_gentag")
                       ELSE Goto(Loop, "l_fin") /\ UNCHANGED <<cand, resp>>
        /\ UNCHANGED <<recvLock, result>>
     \/ \* BlockingIOError: release, sleep, continue
        /\ sock = "open" /\ inbox = <<>>
        /\ blocking' = TRUE
        /\ Release
        /\ Goto(Loop, "l_test")
        /\ UNCHANGED <<inbox, wire, cbLog, todoLog, kaSeen, use_keep_alive, result,
                       cand, resp>>
     \/ \* recv fails on the open socket: handled by `except Exception`
        /\ sock = "open"
        /\ IF DEBUG
             THEN blocking' = TRUE /\ Release /\ LoopDies("OSError")
             ELSE Goto(Loop, "l_fin") /\ UNCHANGED <<blocking, recvLock, result>>
        /\ UNCHANGED <<inbox, wire, cbLog, todoLog, kaSeen, use_keep_alive, cand, resp>>
     \/ \* closed socket: recv raises, and so does the handler's setblocking
        /\ sock # "open"
        /\ LoopDies(SockErr)
        /\ UNCHANGED <<inbox, wire, cbLog, todoLog, kaSeen, blocking, use_keep_alive,
                       recvLock, cand, resp>>
  /\ UNCHANGED <<firstRequest,
                 inCallback,
                 data, message,
                 body_raw, todo, body,
                 headers_raw, headers,
                 built,
                 regTag, urnUUID,
                 cx, issued,
                 ibranch,
                 depth,
                 tags,
                 firedKA, my_public_ip, my_public_port,
                 NSD, callCallback, sock, registerThread, timers, callID,
                 registerCounter, inviteCounter, subscribeCounter, tagLibrary,
                 icall, delivered, nInvites, nSubs, started, stopState,
                 socketsCreated, loopsSpawned>>

\* line 831, parse_message inside gen_tag: append the tag, send the reply;
\* an OSError of send_message is swallowed by the handler of line 832
LoopGenTag ==
  /\ pc[Loop] = "l_gentag"
  /\ GenTagSend(Loop)
  /\ resp' = [resp EXCEPT ![Loop] = NoMsg]
  /\ Goto(Loop, "l_fin")
  /\ UNCHANGED <<firstRequest,
                 inCallback,
                 data, message,
                 body_raw, todo, body,
                 headers_raw, headers,
                 built,
                 regTag, urnUUID,
                 cx, issued,
                 ibranch,
                 depth,
                 kaSeen, firedKA, my_public_ip, my_public_port,
                 NSD, use_keep_alive, callCallback, sock, blocking, inbox, recvLock,
                 registerThread, timers, callID, registerCounter, inviteCounter,
                 subscribeCounter, tagLibrary, icall, result, cbLog, todoLog,
                 delivered, nInvites, nSubs, started, stopState, socketsCreated,
                 loopsSpawned>>

\* lines 853-854
LoopFin ==
  /\ pc[Loop] = "l_fin"
  /\ IF sock = "open"
       THEN blocking' = TRUE /\ Release /\ Goto(Loop, "l_test") /\ UNCHANGED result
       ELSE LoopDies(SockErr) /\ UNCHANGED <<blocking, recvLock>>
  /\ UNCHANGED <<firstRequest,
                 inCallback,
                 data, message,
                 body_raw, todo, body,
                 headers_raw, headers,
                 built,
                 regTag, urnUUID,
                 cx, issued,
                 ibranch,
                 depth,
                 tags, cand,
                 kaSeen, firedKA,
                 my_public_ip, my_public_port,
                 NSD, use_keep_alive, callCallback, sock, inbox, registerThread,
                 timers, callID, registerCounter, inviteCounter, subscribeCounter,
                 tagLibrary, resp, icall, wire, cbLog, todoLog, delivered,
                 nInvites, nSubs, started, stopState, socketsCreated, loopsSpawned>>

RecvLoop == LoopTest \/ LoopAcquire \/ LoopRecv \/ LoopGenTag \/ LoopFin

(* ---------------------------- a callback that calls back --------------- *)
\* lines 863-907: self.callCallback(message) runs in the thread that is
\* inside parse_message.  Here the application's callback calls an operation
\* of the client before it returns: register() or deregister(), and from
\* the application thread also subscribe() or invite() (entered at its
\* recvLock.acquire(), line 1375).  The message is one that parse_message
\* passes to the callback, read by the receive loop (line 830) or by the
\* dispatch loop of invite() (line 1387).
CallbackCalls ==
  /\ callCallback
  /\ \E t \in {Loop, Caller} :
       LET m == IF t = Loop THEN Head(inbox) ELSE resp[Caller] IN
       /\ IF t = Loop
            THEN /\ pc[Loop] = "l_recv" /\ sock = "open" /\ inbox # <<>>
                 /\ ~ParseFails(Head(inbox))
                 /\ inbox' = Tail(inbox)
            ELSE /\ pc[Caller] = "i_disp" /\ ~Awaited(resp[Caller], icall) /\ NSD
                 /\ UNCHANGED inbox
       /\ IF m.type = "resp" THEN m.status \in {200, 404, 503}
                              ELSE m.method \in {"INVITE", "BYE", "CANCEL", "NOTIFY"}
       /\ cbLog' = Append(cbLog, m)
       /\ inCallback' = inCallback \cup {t}
       /\ \E entry \in {"r_acquire", "d_acquire"}
                       \cup (IF t = Caller THEN {"s_acquire", "i_acquire"} ELSE {}) :
            Goto(t, entry)
       /\ Enter(t)
  /\ UNCHANGED <<firstRequest,
                 data, message, body_raw, todo, body, headers_raw, headers,
                 built, regTag, urnUUID, cx, issued, ibranch, tags, cand,
                 kaSeen, firedKA, my_public_ip, my_public_port, NSD, use_keep_alive,
                 callCallback, sock, blocking, recvLock, registerThread,
                 timers, callID, registerCounter, inviteCounter, subscribeCounter,
                 tagLibrary, resp, icall, result, wire, todoLog,
                 delivered, nInvites, nSubs, started, stopState, socketsCreated,
                 loopsSpawned>>

(* ---------------------------- the refresh Timer ------------------------ *)
\* the Timer's interval elapses
TimerFire(id) ==
  /\ timers[id] = "pending"
  /\ timers' = [timers EXCEPT ![id] = "fired"]
  /\ firedKA' = IF kaSeen /\ stopState = "no" THEN firedKA \cup {id} ELSE firedKA
  /\ Goto(id, "t_check")
  /\ UNCHANGED <<firstRequest,
                 inCallback,
                 data, message,
                 body_raw, todo, body,
                 headers_raw, headers,
                 built,
                 regTag, urnUUID,
                 cx, issued,
                 ibranch,
                 depth,
                 tags, cand,
                 kaSeen, my_public_ip, my_public_port,
                 NSD, use_keep_alive, callCallback, sock, blocking, inbox, recvLock,
                 registerThread, callID, registerCounter, inviteCounter,
                 subscribeCounter, tagLibrary, resp, icall, result, wire, cbLog,
                 todoLog, delivered, nInvites, nSubs, started, stopState,
                 socketsCreated, loopsSpawned>>

\* check_for_new_register, lines 1578-1580
CheckForNewRegister(id) ==
  /\ pc[id] = "t_check"
  /\ IF use_keep_alive
       THEN pc' = [pc EXCEPT ![id] = "done"] /\ result' = [result EXCEPT ![id] = "ok"]
       ELSE Goto(id, "r_acquire") /\ UNCHANGED result
  /\ Enter(id)
  /\ UNCHANGED <<firstRequest,
                 inCallback,
                 data, message,
                 body_raw, todo, body,
                 headers_raw, headers,
                 built,
                 regTag, urnUUID,
                 cx, issued,
                 ibranch,
                 tags, cand,
                 kaSeen, firedKA,
                 my_public_ip, my_public_port,
                 NSD, use_keep_alive, callCallback, sock, blocking, inbox, recvLock,
                 registerThread, timers, callID, registerCounter, inviteCounter,
                 subscribeCounter, tagLibrary, resp, icall, wire, cbLog, todoLog,
                 delivered, nInvites, nSubs, started, stopState, socketsCreated,
                 loopsSpawned>>

(* ---------------------------- the builders ----------------------------- *)
\* The text of the messages, as the gen_... methods put it together with +=.
\* A header whose value plays no part is written `Name: ~`; every line end
\* and every Content-Length is written as the code writes it.
Hs(names) ==
  LET f[n \in 0..Len(names)] ==
        IF n = 0 THEN "" ELSE f[n - 1] \o names[n] \o ": ~\r\n"
  IN f[Len(names)]

\* lines 1201-1221 / 1252-1270: the SDP body for one port with n payload
\* types, the last of them telephone-event when tev
SdpBody(n, tev, sendtype) ==
  LET fmts[k \in 0..n] == IF k = 0 THEN "" ELSE fmts[k - 1] \o " " \o ToString(k)
      maps[k \in 0..n] ==
        IF k = 0 THEN ""
        ELSE maps[k - 1] \o "a=rtpmap:" \o ToString(k) \o " codec/8000\r\n"
             \o (IF tev /\ k = n THEN "a=fmtp:" \o ToString(k) \o " 0-15\r\n" ELSE "")
  IN "v=0\r\n" \o "o=pyVoIP 1 3 IN IP4 10.0.0.2\r\n" \o "s=pyVoIP 1.6.3\r\n"
     \o "c=IN IP4 10.0.0.2\r\n" \o "t=0 0\r\n"
     \o "m=audio 10000 RTP/AVP" \o fmts[n] \o "\r\n" \o maps[n]
     \o "a=ptime:20\r\n" \o "a=maxptime:150\r\n" \o "a=" \o sendtype \o "\r\n"

\* str.replace(old, new) on the text s: every occurrence of old, from the
\* left, none overlapping the one before
Replace(s, old, new) ==
  LET hits == {i \in 1..Len(s) : i + Len(old) - 1 <= Len(s)
                                  /\ SubSeq(s, i, i + Len(old) - 1) = old}
      f[i \in 1..(Len(s) + 1)] ==
        LET ahead == {h \in hits : h >= i} IN
        IF ahead = {} THEN SubSeq(s, i, Len(s))
        ELSE LET h == CHOOSE x \in ahead : \A y \in ahead : x <= y
             IN SubSeq(s, i, h - 1) \o new \o f[h + Len(old)]
  IN f[1]

\* kind: which builder; nvia: the Via headers of the request it answers
\* (_gen_response_via_header, lines 1343-1364); sdp: the SDP text
Builder(kind, nvia, sdp) ==
  LET via == Hs([i \in 1..nvia |-> "Via"])
      invite ==
        "INVITE sip:100@example.net SIP/2.0\r\n"
        \o Hs(<<"Via", "Max-Forwards", "Contact", "To", "From", "Call-ID", "CSeq",
                "Allow", "Content-Type", "User-Agent">>)
        \o "Content-Length: " \o ToString(Len(sdp)) \o "\r\n\r\n" \o sdp
      register(auth) ==
        "REGISTER sip:example.net SIP/2.0\r\n"
        \o Hs(<<"Via", "From", "To", "Call-ID", "CSeq", "Contact", "Allow",
                "Max-Forwards", "Allow-Events", "User-Agent", "Expires">> \o auth)
        \o "Content-Length: 0" \o "\r\n\r\n"
  IN CASE kind = "REGISTER" -> register(<<>>)
       [] kind = "REGISTER auth" -> register(<<"Authorization">>)
       [] kind = "SUBSCRIBE" ->
            "SUBSCRIBE sip:alice@example.net SIP/2.0\r\n"
            \o Hs(<<"Via", "From", "To", "Call-ID", "CSeq", "Contact", "Max-Forwards",
                    "User-Agent", "Expires", "Event">>)
            \o "Accept: application/simple-message-summary"
            \o "Content-Length: 0" \o "\r\n\r\n"
       [] kind = "INVITE" -> invite
       [] kind = "INVITE auth" ->
            Replace(invite, "\r\nContent-Length", "\r\n" \o Hs(<<"Authorization">>) \o "Content-Length")
       [] kind = "ACK" ->
            "ACK sip:100@example.net SIP/2.0\r\n" \o via
            \o Hs(<<"Max-Forwards", "To", "From", "Call-ID", "CSeq", "User-Agent">>)
            \o "Content-Length: 0\r\n\r\n"
       [] kind = "BYE" ->
            "BYE sip:100@10.0.0.9 SIP/2.0\r\n" \o via
            \o Hs(<<"From", "To", "Call-ID", "CSeq", "Contact", "User-Agent", "Allow">>)
            \o "Content-Length: 0\r\n\r\n"
       [] kind = "180" ->
            "SIP/2.0 180 Ringing\r\n" \o via
            \o Hs(<<"From", "To", "Call-ID", "CSeq", "Contact", "User-Agent", "Allow">>)
            \o "Content-Length: 0\r\n\r\n"
       [] kind = "200 answer" ->
            "SIP/2.0 200 OK\r\n" \o via
            \o Hs(<<"From", "To", "Call-ID", "CSeq", "Contact", "User-Agent", "Allow",
                    "Content-Type">>)
            \o "Content-Length: " \o ToString(Len(sdp)) \o "\r\n\r\n" \o sdp
       [] kind = "200" ->
            "SIP/2.0 200 OK\r\n" \o via
            \o Hs(<<"From", "To", "Call-ID", "CSeq", "User-Agent", "Allow">>)
            \o "Content-Length: 0\r\n\r\n"
       [] kind = "NOTIFY" ->
            "SIP/2.0 200 OK\r\n" \o via
            \o Hs(<<"To", "From", "Call-ID", "CSeq", "Event">>)
            \o "Content-Length: 0\r\n\r\n"
       [] kind = "486" ->
            "SIP/2.0 486 Busy Here\r\n" \o via
            \o Hs(<<"From", "To", "Call-ID", "CSeq", "Contact", "User-Agent", "Warning",
                    "Allow">>)
            \o "Content-Length: 0\r\n\r\n"
       [] kind = "505" ->
            "SIP/2.0 505 SIP Version Not Supported\r\n" \o via
            \o Hs(<<"From", "To", "Call-ID", "CSeq", "Contact", "User-Agent", "Warning",
                    "Allow">>)
            \o "Content-Length: 0\r\n\r\n"

\* one call of a builder
Build ==
  /\ \E kind \in {"REGISTER", "REGISTER auth", "SUBSCRIBE", "INVITE", "INVITE auth",
                   "ACK", "BYE", "180", "200 answer", "200", "NOTIFY", "486", "505"},
        nvia \in 0..MaxVias, n \in 1..MaxCodecs, tev \in BOOLEAN,
        sendtype \in {"sendrecv", "sendonly", "recvonly", "inactive"} :
       built' = Builder(kind, nvia, SdpBody(n, tev, sendtype))
  /\ UNCHANGED <<firstRequest,
                 inCallback,
                 data, message,
                 body_raw, todo, body,
                 headers_raw, headers,
                 regTag, urnUUID, cx, issued, ibranch, depth, tags, cand, kaSeen,
                 firedKA, my_public_ip, my_public_port, NSD, use_keep_alive,
                 callCallback, sock, blocking, inbox, recvLock, registerThread,
                 timers, callID, registerCounter, inviteCounter, subscribeCounter,
                 tagLibrary, pc, resp, icall, result, wire, cbLog, todoLog,
                 delivered, nInvites, nSubs, started, stopState, socketsCreated,
                 loopsSpawned>>

(* ---------------------------- parsing the headers ---------------------- *)
\* lines 699-716 with parse_header (416-470).  A header line is written by
\* its name; "" is a line without `: `, for which i[1] does not exist.
\* headers starts as {'Via': []}; a name is stored at its first occurrence,
\* every Via line is appended.
parse_raw_header(ls) ==
  IF \E i \in 1..Len(ls) : ls[i] = ""
    THEN [exc |-> "IndexError", keys |-> {}, via |-> 0]
    ELSE [exc |-> "", keys |-> {"Via"} \cup {ls[i] : i \in 1..Len(ls)},
          via |-> Cardinality({i \in 1..Len(ls) : ls[i] = "Via"})]

\* SIPMessage(data) for one datagram with a well-formed first line
ParseHeaders ==
  /\ headers.exc = "unparsed"
  /\ \E n \in 0..MaxHeaderLines :
       \E ls \in [1..n -> {"Via", "From", "To", "Call-ID", "CSeq", ""}] :
         /\ headers_raw' = ls
         /\ headers' = parse_raw_header(ls)
  /\ UNCHANGED <<firstRequest,
                 inCallback,
                 data, message,
                 body_raw, todo, body,
                 built, regTag, urnUUID, cx, issued, ibranch, depth, tags, cand,
                 kaSeen, firedKA, my_public_ip, my_public_port, NSD, use_keep_alive,
                 callCallback, sock, blocking, inbox, recvLock, registerThread,
                 timers, callID, registerCounter, inviteCounter, subscribeCounter,
                 tagLibrary, pc, resp, icall, result, wire, cbLog, todoLog,
                 delivered, nInvites, nSubs, started, stopState, socketsCreated,
                 loopsSpawned>>

(* ---------------------------- parsing a datagram ----------------------- *)
\* bytes.split(sep): the pieces of s between the occurrences of sep, taken
\* from the left, none overlapping the one before
Split(s, sep) ==
  LET hits == {i \in 1..Len(s) : i + Len(sep) - 1 <= Len(s)
                                  /\ SubSeq(s, i, i + Len(sep) - 1) = sep}
      f[i \in 1..(Len(s) + Len(sep) + 1)] ==
        LET ahead == {h \in hits : h >= i} IN
        IF ahead = {} THEN <<SubSeq(s, i, Len(s))>>
        ELSE LET h == CHOOSE x \in ahead : \A y \in ahead : x <= y
             IN <<SubSeq(s, i, h - 1)>> \o f[h + Len(sep)]
  IN f[1]

\* lines 394-415 with parse_sip_response (731-746) and parse_sip_message
\* (748-763).  parse unpacks data.split(b'\r\n\r\n') into two names inside a
\* try and falls back to the first piece; the method it then calls unpacks
\* the same split again, outside any try.  The header lines go to
\* parse_raw_header by their names, the body lines (lines 722-729) are
\* split at '=' and stored by their keys.  int() of the status raises
\* ValueError for a word that is no number.
parse(d) ==
  LET parts == Split(d, "\r\n\r\n")
      hlines == Split(parts[1], "\r\n")
      heading == Split(hlines[1], " ")
      check == heading[1]
      isResp == check \in SIPCompatibleVersions
      isInt(w) == w # "" /\ \A i \in 1..Len(w) :
                              \E c \in 0..9 : SubSeq(w, i, i) = ToString(c)
      fail(e) == [exc |-> e, type |-> "", keys |-> {}, body |-> {}]
      name(l) == IF Len(Split(l, ": ")) < 2 THEN "" ELSE Split(l, ": ")[1]
      hs == parse_raw_header([i \in 1..(Len(hlines) - 1) |-> name(hlines[i + 1])])
      blines == IF Len(parts) = 2 /\ Len(parts[2]) > 0
                  THEN {l \in {Split(parts[2], "\r\n")[i] :
                                 i \in 1..Len(Split(parts[2], "\r\n"))} : l # ""}
                  ELSE {}
  IN IF ~isResp /\ check \notin SIPCompatibleMethods THEN fail("SIPParseError")
     ELSE IF Len(parts) # 2 THEN fail("ValueError")
     ELSE IF Len(heading) < (IF isResp THEN 2 ELSE 3) THEN fail("IndexError")
     ELSE IF heading[IF isResp THEN 1 ELSE 3] \notin SIPCompatibleVersions
       THEN fail("SIPParseError")
     ELSE IF isResp /\ ~isInt(heading[2]) THEN fail("ValueError")
     ELSE IF hs.exc # "" THEN fail(hs.exc)
     ELSE IF \E l \in blines : Len(Split(l, "=")) < 2 THEN fail("IndexError")
     ELSE [exc |-> "", type |-> IF isResp THEN "RESPONSE" ELSE "MESSAGE",
           keys |-> hs.keys, body |-> {Split(l, "=")[1] : l \in blines}]

\* SIPMessage(data) for one datagram: a first line, header lines joined by
\* CRLF, and what follows the last header line
Parse ==
  /\ message.exc = "unparsed"
  /\ \E first \in {"SIP/2.0 200 OK", "SIP/2.0 100 Trying", "SIP/2.0 OK",
                   "INVITE sip:a@b SIP/2.0", "BYE sip:a@b SIP/2.0",
                   "NOTIFY sip:a@b SIP/2.0", "INVITE sip:a@b SIP/3.0",
                   "OPTIONS sip:a@b SIP/2.0"},
        n \in 0..MaxHeaderLines - 3,
        tail \in {"", "\r\n", "\r\n\r\n", "\r\n\r\nv=0\r\n", "\r\n\r\nv=0\r\n\r\n"} :
       \E ls \in [1..n -> {"Via: ~", "From: ~", "Call-ID: ~"}] :
         LET f[k \in 0..n] == IF k = 0 THEN first ELSE f[k - 1] \o "\r\n" \o ls[k]
         IN /\ data' = f[n] \o tail
            /\ message' = parse(f[n] \o tail)
  /\ UNCHANGED <<firstRequest,
                 inCallback,
                 body_raw, todo, body, headers_raw, headers,
                 built, regTag, urnUUID, cx, issued, ibranch, depth, tags, cand,
                 kaSeen, firedKA, my_public_ip, my_public_port, NSD, use_keep_alive,
                 callCallback, sock, blocking, inbox, recvLock, registerThread,
                 timers, callID, registerCounter, inviteCounter, subscribeCounter,
                 tagLibrary, pc, resp, icall, result, wire, cbLog, todoLog,
                 delivered, nInvites, nSubs, started, stopState, socketsCreated,
                 loopsSpawned>>

(* ---------------------------- parsing the SDP body --------------------- *)
\* the lines an SDP body may hold: m= lines with their format list and
\* a=rtpmap / a=fmtp lines for one payload type
SdpLines ==
  [k : {"m"}, fmts : (SUBSET (1..MaxPayload)) \ {{}}, p : {0}]
  \cup [k : {"rtpmap", "fmtp"}, fmts : {{}}, p : 1..MaxPayload]

\* parse_body for one line x, lines 615-686; b is the body parsed so far.
\* An a= line is dropped when no m= line has been parsed; otherwise it is
\* stored in body['m'][index], index being set by the first entry whose
\* methods hold the payload type and by nothing else
parse_body(b, x) ==
  IF x.k = "m"
    THEN [b EXCEPT !.m = Append(@, [methods |-> x.fmts, rtpmap |-> {}, fmtp |-> {}])]
  ELSE IF b.m = <<>> THEN b
  ELSE LET hits == {i \in 1..Len(b.m) : x.p \in b.m[i].methods} IN
       IF hits = {} THEN [b EXCEPT !.exc = "UnboundLocalError"]
       ELSE LET index == CHOOSE i \in hits : \A j \in hits : i <= j IN
            IF x.k = "rtpmap"
              THEN [b EXCEPT !.m[index].rtpmap = @ \cup {x.p}]
              ELSE [b EXCEPT !.m[index].fmtp = @ \cup {x.p}]

\* lines 722-724: body.split, list(set(body_raw)), for a body in which every
\* a= line names a payload type of some m= line
parse_raw_body ==
  /\ body_raw = {}
  /\ \E ls \in (SUBSET SdpLines) \ {{}} :
       /\ \A x \in ls : x.k # "m" => \E y \in ls : y.k = "m" /\ x.p \in y.fmts
       /\ body_raw' = ls /\ todo' = ls
  /\ UNCHANGED body
  /\ UNCHANGED <<firstRequest,
                 inCallback,
                 data, message,
                 headers_raw, headers, built, regTag, urnUUID, cx, issued, ibranch,
                 depth, tags, cand, kaSeen, firedKA, my_public_ip, my_public_port,
                 NSD, use_keep_alive, callCallback, sock, blocking, inbox, recvLock,
                 registerThread, timers, callID, registerCounter, inviteCounter,
                 subscribeCounter, tagLibrary, pc, resp, icall, result, wire, cbLog,
                 todoLog, delivered, nInvites, nSubs, started, stopState,
                 socketsCreated, loopsSpawned>>

\* lines 725-729: the for loop reaches one more element of the set, in the
\* order the set yields them, and hands it to parse_body
HandleLine ==
  /\ body.exc = ""
  /\ \E x \in todo :
       /\ todo' = todo \ {x}
       /\ body' = parse_body(body, x)
  /\ UNCHANGED body_raw
  /\ UNCHANGED <<firstRequest,
                 inCallback,
                 data, message,
                 headers_raw, headers, built, regTag, urnUUID, cx, issued, ibranch,
                 depth, tags, cand, kaSeen, firedKA, my_public_ip, my_public_port,
                 NSD, use_keep_alive, callCallback, sock, blocking, inbox, recvLock,
                 registerThread, timers, callID, registerCounter, inviteCounter,
                 subscribeCounter, tagLibrary, pc, resp, icall, result, wire, cbLog,
                 todoLog, delivered, nInvites, nSubs, started, stopState,
                 socketsCreated, loopsSpawned>>

(* ---------------------------- specification ---------------------------- *)
\* the steps of start() and stop() on the application thread
LifecycleStep ==
  \/ StartSpawn \/ StopCancel(Caller) \/ StopClose(Caller)
  \/ Register(Caller) \/ Deregister(Caller)

CallerStep ==
  \/ LifecycleStep
  \/ InvGenInvite \/ InvSend \/ InvRecv \/ InvDisp \/ InvDispGenTag
  \/ InvAck \/ InvAuth \/ InvRelease
  \/ SubSend \/ SubRecv \/ SubRelease

TimerStep(id) == CheckForNewRegister(id) \/ Register(id)

Next ==
  \/ Deliver
  \/ Start \/ CallStop \/ CallInvite \/ CallSubscribe
  \/ CallerStep
  \/ RecvLoop
  \/ \E id \in TimerIds : TimerFire(id) \/ TimerStep(id)

Spec == Init /\ [][Next]_vars

\* every thread that can take a step eventually does; the network and the
\* application's decisions to call an operation are under no obligation
FairSpec ==
  /\ Spec
  /\ WF_vars(CallerStep)
  /\ WF_vars(RecvLoop)
  /\ \A id \in TimerIds : WF_vars(TimerFire(id) \/ TimerStep(id))

\* registration alone, against a registrar that reports public addresses
NextVia ==
  \/ DeliverVia
  \/ Start \/ StartSpawn \/ Register(Caller)
  \/ \E id \in TimerIds : TimerFire(id) \/ TimerStep(id)

ViaSpec == Init /\ [][NextVia]_vars

\* start(), stop() and start() again, against a registrar; the application
\* places no calls
NextRestart ==
  \/ DeliverReg
  \/ Start \/ CallStop \/ Restart
  \/ LifecycleStep
  \/ RecvLoop
  \/ \E id \in TimerIds : TimerFire(id) \/ TimerStep(id)

RestartSpec == Init /\ [][NextRestart]_vars

\* one call placed by the application thread, stop() called by a second
\* thread while the call is being placed
InviteStep ==
  \/ CallInvite \/ InvGenInvite \/ InvSend \/ InvRecv \/ InvDisp \/ InvDispGenTag
  \/ InvAck \/ InvAuth \/ InvRelease

NextAsyncStop ==
  \/ Deliver
  \/ Start \/ StartSpawn \/ Register(Caller)
  \/ InviteStep
  \/ CallStopAsync \/ StopCancel(Stopper) \/ Deregister(Stopper) \/ StopClose(Stopper)
  \/ RecvLoop
  \/ \E id \in TimerIds : TimerFire(id) \/ TimerStep(id)

AsyncStopSpec == Init /\ [][NextAsyncStop]_vars

\* the application thread starts the client, places a call and stops the
\* client, against a server that answers the call with any response
NextCall ==
  \/ DeliverFrom(CallReplies, MaxDeliver)
  \/ Start \/ CallStop
  \/ LifecycleStep
  \/ InviteStep
  \/ RecvLoop
  \/ \E id \in TimerIds : TimerFire(id) \/ TimerStep(id)

CallSpec == Init /\ [][NextCall]_vars

\* the same with subscribe() and an application whose call callback calls
\* operations of the client
NextReentry ==
  \/ NextCall
  \/ CallSubscribe \/ SubSend \/ SubRecv \/ SubRelease
  \/ CallbackCalls
  \/ Register(Loop) \/ Deregister(Loop)

ReentrySpec == Init /\ [][NextReentry]_vars

\* every thread that can take a step eventually does
FairCallSpec ==
  /\ CallSpec
  /\ WF_vars(LifecycleStep \/ InviteStep)
  /\ WF_vars(RecvLoop)
  /\ \A id \in TimerIds : WF_vars(TimerFire(id) \/ TimerStep(id))

\* an inbound call: the registrar answers, the peer sends INVITE, BYE and
\* CANCEL with one Call-ID, the application rings for the INVITE it is handed
NextDialog ==
  \/ DeliverFrom(RegReplies
                 \cup {Req(m, ForeignCallId, "") : m \in {"INVITE", "BYE", "CANCEL"}},
                 MaxDeliverReg)
  \/ Start \/ StartSpawn \/ Register(Caller)
  \/ RecvLoop
  \/ gen_ringing
  \/ \E id \in TimerIds : TimerFire(id) \/ TimerStep(id)

DialogSpec == Init /\ [][NextDialog]_vars

\* start(), the refresh timers and stop(), with the building and the
\* sending of the first REGISTER of an exchange as two steps
RegisterSteps(t) ==
  \/ gen_first_response(t, "r_acquire", "r_send", default_expires)
  \/ send_message(t, "r_send", "r_wait1")
  \/ RegWait1(t) \/ RegRecv2(t) \/ RegAuth(t)
  \/ RegWait3(t) \/ RegFinal(t) \/ RegGenTag(t)
  \/ RegTimer(t) \/ RegMkTimer(t) \/ RegStartTimer(t)

NextCSeq ==
  \/ DeliverReg
  \/ Start \/ StartSpawn \/ CallStop
  \/ StopCancel(Caller) \/ StopClose(Caller)
  \/ RegisterSteps(Caller)
  \/ gen_first_response(Caller, "d_acquire", "d_send", 0)
  \/ send_message(Caller, "d_send", "d_wait1")
  \/ DeregWait1(Caller) \/ DeregAuth(Caller) \/ DeregWait2(Caller) \/ DeregFinal(Caller)
  \/ RecvLoop
  \/ \E id \in TimerIds : TimerFire(id) \/ CheckForNewRegister(id) \/ RegisterSteps(id)

CSeqSpec == Init /\ [][NextCSeq]_vars

\* a started client whose receive loop is sent every kind of request and
\* responses of every class
NextDispatch ==
  \/ DeliverFrom({Resp(st, ForeignCallId) : st \in {100, 180, 200, 401, 404, 500, 503}}
                 \cup {Req(m, ForeignCallId, "") :
                         m \in {"INVITE", "ACK", "BYE", "CANCEL", "NOTIFY"}},
                 MaxDeliver)
  \/ Start \/ StartSpawn \/ Register(Caller)
  \/ RecvLoop
  \/ \E id \in TimerIds : TimerFire(id) \/ TimerStep(id)

DispatchSpec == Init /\ [][NextDispatch]_vars

\* start() alone, with the receive loop running, against a registrar that
\* may answer 400 and any number of 500s
NextRetry ==
  \/ DeliverRetry
  \/ Start \/ StartSpawn \/ Register(Caller)
  \/ RecvLoop

RetrySpec == Init /\ [][NextRetry]_vars

\* registration and its refresh, the receive loop, and an application that
\* rings for the calls it is handed
NextRing ==
  \/ DeliverRing
  \/ Start \/ StartSpawn \/ Register(Caller)
  \/ RecvLoop
  \/ gen_ringing
  \/ \E id \in TimerIds : TimerFire(id) \/ TimerStep(id)

RingSpec == Init /\ [][NextRing]_vars

\* the builders alone, applied to the requests and media they may be given
BuildSpec == Init /\ [][Build]_vars

\* SIPMessage(data) alone, applied to datagrams with any headers
HeaderSpec == Init /\ [][ParseHeaders]_vars

\* SIPMessage(data), from the bytes of the datagram
ParseSpec == Init /\ [][Parse]_vars

\* parse_raw_body alone, applied to SDP bodies, its loop in any order
NextBody == parse_raw_body \/ HandleLine

BodySpec == Init /\ [][NextBody]_vars

\* the callers of gen_call_id alone, each running Counter.count step by step
NextCallId ==
  \E t \in CallIdThreads : GenCallIdCall(t) \/ CounterRead(t) \/ CounterIncr(t)

CallIdSpec == Init /\ [][NextCallId]_vars

(* ======================================================================= *)
(* Properties                                                              *)
(* ======================================================================= *)
AcquirePcs == {"r_acquire", "d_acquire", "i_acquire", "s_acquire", "l_acquire"}
\* positions at which the next step of the thread reads the client socket
ReadPcs == {"r_wait1", "r_recv2", "r_wait3", "d_wait1", "d_wait2", "i_recv",
            "s_recv", "l_recv"}
\* positions between the acquire and the release of one exchange
ExchangePcs == ReadPcs \cup {"r_auth", "r_final", "d_auth", "d_final", "i_disp",
                             "i_ack", "i_auth", "i_release", "s_release", "l_fin",
                             "r_gentag", "i_gentag", "l_gentag"}
\* positions of a thread that is not inside any operation
EndedPcs == {"idle", "done", "dead"}

IsRegister(m) == m.kind = "REGISTER"
RegisterIdx == {i \in 1..Len(wire) : IsRegister(wire[i])}
InvitesFor(c) == {i \in 1..Len(wire) : wire[i].kind = "INVITE" /\ wire[i].callid = c}

\* C1: the receive loop, register(), deregister(), invite() and subscribe()
\* are never inside their socket exchange at the same time: a thread inside
\* an exchange (in particular one about to read the socket) holds recvLock,
\* and recvLock has at most one holder.
Thm_C1 ==
  /\ Cardinality(recvLock) <= 1
  /\ \A t \in Threads : pc[t] \in ExchangePcs => t \in recvLock
  /\ Cardinality({t \in Threads : pc[t] \in ExchangePcs}) <= 1

\* one thread is reading the socket while another waits for the lock
Wit_C1 == \E t1, t2 \in Threads :
            t1 # t2 /\ pc[t1] \in ReadPcs /\ pc[t2] \in AcquirePcs

\* C2: when register(), deregister(), invite() or subscribe() has ended, by
\* return or by exception, the thread that ran it no longer holds recvLock.
Cex_C2 == \A t \in Threads \ {Loop} : pc[t] \in EndedPcs => t \notin recvLock

\* C3: an iteration of the receive loop that acquired recvLock has released
\* it when the next iteration starts or the loop has terminated.
Cex_C3 == pc[Loop] \in {"l_test", "l_acquire", "done", "dead"} => Loop \notin recvLock

\* C4: once stop() on a started client has ended, returned or raised, the
\* UDP socket is closed.
Cex_C4 == (started /\ stopState \in {"returned", "raised"}) => sock = "closed"

\* C5: after stop() has returned no refresh Timer is pending.
Cex_C5 == stopState = "returned" => \A id \in TimerIds : timers[id] # "pending"

\* C6: stop() on a started client cancels the refresh Timer, then sends the
\* Expires: 0 REGISTER, then closes the sockets; and no REGISTER with a
\* non-zero Expires follows an Expires: 0 REGISTER on the wire.
Cex_C6 ==
  /\ (started /\ pc[Caller] \in {"d_acquire", "d_wait1", "d_auth", "d_wait2", "d_final", "stop_close"})
        => registerThread # 0 /\ timers[registerThread] \notin {"created", "pending"}
  /\ (started /\ stopState = "returned")
        => /\ sock = "closed"
           /\ \E i \in RegisterIdx : wire[i].expires = 0
  /\ \A i, j \in RegisterIdx : (i < j /\ wire[i].expires = 0) => wire[j].expires = 0

\* C7: after stop() has cleared the running flag the receive loop eventually
\* terminates.
Cex_C7 == (stopState # "no") ~> (pc[Loop] \in {"unborn", "done", "dead"})

\* C8: start() on a running client raises the already-running error and
\* changes nothing: no socket is opened, nothing is sent, no receive loop is
\* spawned, no Timer is touched and the running flag stays set.
Thm_C8 ==
  [][(Start /\ NSD) =>
       /\ result'[Caller] = "RuntimeError" /\ pc'[Caller] = "idle"
       /\ NSD'
       /\ UNCHANGED <<sock, socketsCreated, inbox, wire, loopsSpawned, recvLock,
                      registerThread, timers, callID, registerCounter,
                      use_keep_alive>>
       /\ pc'[Loop] = pc[Loop]]_vars

\* a start() was rejected while the client was running with its loop alive
Wit_C8 == /\ result[Caller] = "RuntimeError" /\ NSD /\ started
          /\ pc[Loop] \in {"l_test", "l_acquire", "l_recv", "l_fin"}

\* C9: between two plain REGISTERs at most one REGISTER carries credentials;
\* a REGISTER with credentials is sent only by a thread whose last reply is a
\* 401; and when register() reads a 401 in reply to it, register() ends at
\* once with InvalidAccountInfoError, sending nothing and creating no Timer.
Thm_C9 ==
  /\ [](\A i, j \in RegisterIdx :
          (i < j /\ wire[i].auth /\ wire[j].auth)
            => \E k \in RegisterIdx : i < k /\ k < j /\ ~wire[k].auth)
  /\ [][(Len(wire') > Len(wire) /\ IsRegister(wire'[Len(wire')]) /\ wire'[Len(wire')].auth)
          => \E t \in recvLock : resp[t].type = "resp" /\ resp[t].status = 401]_vars
  /\ [][\A t \in Threads :
          (/\ pc[t] = "r_wait3" /\ pc'[t] # "r_wait3"
           /\ sock = "open" /\ inbox # <<>>
           /\ Head(inbox).type = "resp" /\ Head(inbox).status = 401)
          => /\ result'[t] = "InvalidAccountInfoError"
             /\ pc'[t] = Terminal(t)
             /\ UNCHANGED <<wire, timers, registerThread>>]_vars

\* register() has failed on the second 401 after sending its credentials
Wit_C9 == \E t \in Threads :
            /\ result[t] = "InvalidAccountInfoError"
            /\ resp[t].type = "resp" /\ resp[t].status = 401
            /\ pc[t] = Terminal(t)
            /\ wire # <<>> /\ IsRegister(wire[Len(wire)])
            /\ wire[Len(wire)].auth /\ wire[Len(wire)].expires # 0

\* C10: when the INVITE re-sent with credentials is answered with 401, the
\* caller of invite() gets invalid_credentials, and no third INVITE is sent
\* for that Call-ID.
Cex_C10 ==
  /\ (\E m \in todoLog : /\ m.status = 401 /\ m.callid = icall /\ icall # 0
                         /\ \E i \in InvitesFor(icall) : wire[i].auth)
        => result[Caller] = "InvalidAccountInfoError"
  /\ \A c \in InviteCallIds : Cardinality(InvitesFor(c)) <= 2

\* C11: when register() returns after a 200 OK whose first Via carries
\* received = R and rport = P, the client's public address is (R, P), also
\* when that 200 OK was not the first reply of the exchange.
Cex_C11 ==
  [][\A t \in Threads :
       (/\ pc[t] \in {"r_timer", "r_starttimer"}
        /\ pc'[t] \in {"start_spawn", "done"}
        /\ resp[t].status = 200 /\ resp[t].via # 0)
       => (my_public_ip' = resp[t].via /\ my_public_port' = resp[t].via)]_vars

\* C12: register() returns True only after 200 OK; it creates the refresh
\* Timer exactly when it ends with 200 OK on a running client, and a Timer
\* becomes pending only that way; and at most one refresh Timer is pending.
Cex_C12 ==
  /\ [][\A t \in Threads :
          (pc[t] \in {"r_timer", "r_starttimer"} /\ pc'[t] \in {"start_spawn", "done"})
            => resp[t].type = "resp" /\ resp[t].status = 200]_vars
  /\ [][\A t \in Threads :
          (pc[t] = "r_timer" /\ pc'[t] # "r_timer" /\ resp[t].status = 200)
            => (pc'[t] = "r_mktimer" <=> NSD)]_vars
  /\ [][\A id \in TimerIds :
          (timers[id] # "pending" /\ timers'[id] = "pending")
            => \E t \in Threads : /\ pc[t] = "r_starttimer" /\ pc'[t] # "r_starttimer"
                                   /\ resp[t].status = 200]_vars
  /\ [](Cardinality({id \in TimerIds : timers[id] = "pending"}) <= 1)

\* C13: a refresh Timer that fires after a keep-alive NOTIFY has been handled
\* sends no REGISTER unless stop() has been called; and as long as no
\* keep-alive NOTIFY has been handled, a Timer that fires goes on to register().
Cex_C13 ==
  /\ [][\A id \in TimerIds :
          (id \in firedKA /\ pc[id] = "r_acquire" /\ pc'[id] = "r_wait1")
            => stopState # "no"]_vars
  /\ [][\A id \in TimerIds :
          (pc[id] = "t_check" /\ pc'[id] # "t_check" /\ ~kaSeen)
            => pc'[id] = "r_acquire"]_vars

\* a step of the receive loop in which it reads a request with method meth
\* and hands it to parse_message
LoopDispatches(meth) ==
  /\ pc[Loop] = "l_recv" /\ pc'[Loop] \in {"l_fin", "l_gentag"}
  /\ inbox # <<>> /\ inbox' = Tail(inbox)
  /\ Head(inbox).type = "req" /\ Head(inbox).method = meth

\* C14: every inbound NOTIFY is answered with exactly one 200 OK carrying
\* its Call-ID, its Event, its CSeq method and its CSeq number + 1, the
\* callback (when there is one) having been invoked with the message; with
\* or without a call callback.
Cex_C14 ==
  [][LoopDispatches("NOTIFY") =>
       /\ Len(wire') = Len(wire) + 1
       /\ SubSeq(wire', 1, Len(wire)) = wire
       /\ LET r == wire'[Len(wire')] IN
          /\ r.kind = "200N" /\ r.callid = Head(inbox).callid
          /\ r.cseq = Head(inbox).cseq + 1 /\ r.cmethod = "NOTIFY"
          /\ r.event = Head(inbox).event
       /\ callCallback => cbLog' = Append(cbLog, Head(inbox))]_vars

\* a step in which the receive loop, having read an INVITE with no call
\* callback configured, leaves gen_busy and sends on the open socket
LoopAnswersBusy ==
  /\ pc[Loop] = "l_gentag" /\ pc'[Loop] = "l_fin"
  /\ ~callCallback /\ resp[Loop].method = "INVITE" /\ sock = "open"

\* C15: with no call callback, every inbound INVITE is answered with exactly
\* one 486 Busy Here that has the request's Call-ID and CSeq and a To tag
\* never handed out before in the session, and no tagLibrary entry is made.
Cex_C15 ==
  [][LoopAnswersBusy =>
       /\ Len(wire') = Len(wire) + 1
       /\ SubSeq(wire', 1, Len(wire)) = wire
       /\ LET r == wire'[Len(wire')] IN
          /\ r.kind = "486"
          /\ r.callid = resp[Loop].callid
          /\ r.cseq = resp[Loop].cseq /\ r.cmethod = resp[Loop].method
          /\ r.totag \notin tags
       /\ tagLibrary' = tagLibrary]_vars

\* C16: every inbound BYE (CANCEL is handled by the same code) is answered
\* with exactly one 200 OK that has the request's Call-ID and CSeq, sent
\* after the callback was invoked with the message; also with no callback
\* configured and with a callback that raises.
Cex_C16 ==
  /\ [][LoopDispatches("BYE") => pc'[Loop] = "l_gentag"]_vars
  /\ [][(/\ pc[Loop] = "l_gentag" /\ pc'[Loop] = "l_fin"
         /\ resp[Loop].method = "BYE" /\ sock = "open")
        => /\ \E r \in {wire'[Len(wire')]} :
                /\ wire' = Append(wire, r)
                /\ r.kind = "200" /\ r.callid = resp[Loop].callid
                /\ r.cseq = resp[Loop].cseq /\ r.cmethod = "BYE"
           /\ \E i \in 1..Len(cbLog) : cbLog[i] = resp[Loop]]_vars

\* C17: when the receive loop reads a datagram whose SIP version is not
\* supported, the client sends a 505 SIP Version Not Supported response.
Cex_C17 ==
  [][(/\ pc[Loop] = "l_recv" /\ pc'[Loop] # "l_recv"
      /\ inbox # <<>> /\ inbox' = Tail(inbox)
      /\ Head(inbox) = Bad("version"))
     => /\ Len(wire') = Len(wire) + 1
        /\ wire'[Len(wire')].kind = "505"]_vars

\* C18: the registering call never passes the response to its REGISTER to
\* the call callback.
Cex_C18 ==
  [][\A t \in Threads :
       (pc[t] = "r_final" /\ pc'[t] # "r_final" /\ resp[t].type = "resp")
       => cbLog' = cbLog]_vars

\* C19: invite() neither returns nor goes on to the ACK and the second
\* INVITE before it has read a message with its Call-ID and status 100, 180
\* or 401; also when the client is stopped while invite() waits.
Cex_C19 ==
  [][(/\ pc[Caller] = "i_disp"
      /\ \/ pc'[Caller] = "i_ack"
         \/ pc'[Caller] = "idle" /\ result'[Caller] = "ok")
     => Awaited(resp[Caller], icall)]_vars

\* the Authorization line comes exactly once, directly before the
\* Content-Length header
AuthBeforeLength(ls) ==
  /\ Cardinality({k \in 1..Len(ls) : ls[k] = "Authorization"}) = 1
  /\ \E k \in 1..(Len(ls) - 1) : ls[k] = "Authorization" /\ ls[k + 1] = "Content-Length"
\* invite() holds the 401 it waited for
Challenged == resp[Caller].status = 401 /\ Awaited(resp[Caller], icall)

Cex_C21 ==
  [][\A t \in Threads :
       (/\ pc[t] \in {"r_final", "d_final"} /\ pc'[t] # pc[t]
        /\ resp[t].type = "resp" /\ resp[t].status = 500)
         => /\ pc'[t] = (IF pc[t] = "r_final" THEN "r_acquire" ELSE "d_acquire")
            /\ t \notin recvLock']_vars

\* C22: when the reply to a REGISTER is 400, register() ends in a failure that
\* differs from the InvalidAccountInfoError with which a second 401 ends it,
\* and it schedules no refresh timer.
Cex_C22 ==
  [][\A t \in Threads :
       (/\ pc[t] = "r_timer" /\ pc'[t] # pc[t]
        /\ resp[t].type = "resp" /\ resp[t].status = 400)
         => /\ pc'[t] = Terminal(t) /\ result'[t] \notin {"ok", "InvalidAccountInfoError"}
            /\ UNCHANGED <<timers, registerThread>>]_vars

\* C23: at each point where register() waits for a reply (after the first
\* REGISTER, after a 100 Trying, after the authenticated REGISTER), the
\* absence of a reply ends register() with a TimeoutError, and no refresh
\* timer is scheduled.
Cex_C23 ==
  [][\A t \in Threads :
       (/\ pc[t] \in {"r_wait1", "r_recv2", "r_wait3"} /\ pc'[t] # pc[t]
        /\ sock = "open" /\ inbox = <<>>)
         => /\ pc'[t] = Terminal(t) /\ result'[t] = "TimeoutError"
            /\ UNCHANGED <<timers, registerThread>>]_vars

\* C24: no two INVITEs put on the wire by the client carry the same Via
\* branch, the INVITE re-sent with credentials after a 401 included, and every
\* such branch starts with z9hG4bK.
InviteIdx == {i \in 1..Len(wire) : wire[i].kind = "INVITE"}
Cex_C24 ==
  /\ \A i \in InviteIdx : wire[i].branch[1] = "z9hG4bK"
  /\ \A i, j \in InviteIdx : i # j => wire[i].branch # wire[j].branch

\* C25: no two calls of gen_call_id during one client's lifetime return the
\* same Call-ID, whatever the interleaving of invite() on a caller thread with
\* a timer-driven register() and with other invite() calls.
Cex_C25 == \A i, j \in 1..Len(issued) : i # j => issued[i] # issued[j]

\* C26: every REGISTER sent by the client (initial, authenticated, refresh,
\* deregistration) carries the same From tag and the same +sip.instance URN,
\* and no operation of the client changes tagLibrary['register'] or urnUUID.
Cex_C26 ==
  \A i, j \in RegisterIdx :
    /\ wire[i].fromtag = wire[j].fromtag
    /\ wire[i].instance = wire[j].instance

\* C27: no two calls of gen_tag return the same tag, also when gen_tag runs
\* on the receive-loop thread and on a caller thread at once: the list of
\* issued tags never holds a duplicate, i.e. no thread appends (line 970) a
\* tag that is in the list already.
Cex_C27 ==
  [][\A t \in Threads :
       (cand[t] # 0 /\ cand'[t] = 0) => (cand[t] \notin tags /\ cand[t] \in tags')]_vars

\* C28: every message a builder produces contains, among its headers, a line
\* `Content-Length: n` of its own, ended by CRLF, where n is the length of
\* the body that follows the blank line.
HasContentLength(s) ==
  LET e == CHOOSE i \in 1..Len(s) :
             /\ i + 3 <= Len(s) /\ SubSeq(s, i, i + 3) = "\r\n\r\n"
             /\ \A k \in 1..(i - 1) : SubSeq(s, k, k + 3) # "\r\n\r\n"
      line == "\r\nContent-Length: " \o ToString(Len(s) - (e + 3)) \o "\r\n"
  IN \E i \in 1..e : i + Len(line) - 1 <= e + 1 /\ SubSeq(s, i, i + Len(line) - 1) = line
Cex_C28 == built # "" => HasContentLength(built)

\* C29: parsing a datagram that lacks any of the headers Via, From, To,
\* Call-ID, CSeq fails with a parse error: a datagram that was parsed without
\* an error has all five, and so has the SIPMessage made from it.
Cex_C29 ==
  headers.exc = "" =>
    /\ {"Via", "From", "To", "Call-ID", "CSeq"} \subseteq {headers_raw[i] : i \in 1..Len(headers_raw)}
    /\ {"From", "To", "Call-ID", "CSeq"} \subseteq headers.keys /\ headers.via > 0

\* C30: the result of parsing an SDP body does not depend on the order in
\* which the deduplicated lines are processed: once parsing has ended, every
\* distinct m= line has given one media entry, and every a=rtpmap / a=fmtp
\* for payload type p is attached to a media entry whose format list holds p.
Cex_C30 ==
  (body_raw # {} /\ (todo = {} \/ body.exc # "")) =>
    /\ body.exc = ""
    /\ Len(body.m) = Cardinality({x \in body_raw : x.k = "m"})
    /\ \A x \in body_raw :
         IF x.k = "m" THEN \E i \in 1..Len(body.m) : body.m[i].methods = x.fmts
         ELSE \E i \in 1..Len(body.m) :
                /\ x.p \in body.m[i].methods
                /\ x.p \in (IF x.k = "rtpmap" THEN body.m[i].rtpmap ELSE body.m[i].fmtp)


\* C31: a datagram that contains no CRLFCRLF separator (headers only, no
\* body) is parsed successfully into a message with an empty body, for both
\* requests and responses: a datagram without the separator, whose first
\* line and headers are parsed without an error when the separator follows
\* them, is parsed without an error and has no body entry.
Cex_C31 ==
  (/\ message.exc # "unparsed"
   /\ Len(Split(data, "\r\n\r\n")) = 1
   /\ parse(data \o "\r\n\r\n").exc = "")
  => message.exc = "" /\ message.body = {}

\* C32: after invite() has returned because a 100 or 180 arrived, a 200 OK
\* for that call that arrives later is eventually passed to the call
\* callback, as long as the started client is running (stop() has not been
\* called and the receive loop has not ended).
Cex_C32 ==
  (/\ pc[Caller] = "idle" /\ result[Caller] = "ok"
   /\ resp[Caller].status \in {100, 180} /\ resp[Caller].callid = icall /\ icall # 0
   /\ inbox # <<>> /\ Head(inbox) = Resp(200, icall)
   /\ callCallback /\ NSD /\ started /\ stopState = "no"
   /\ pc[Loop] \notin {"unborn", "done", "dead"})
  ~> (\/ \E i \in 1..Len(cbLog) : cbLog[i] = Resp(200, icall)
      \/ stopState # "no" \/ pc[Loop] \in {"done", "dead"})

\* C33: stop() eventually ends (returns or raises) from every reachable
\* state of a started client, also after invite() has placed a call and
\* after a refresh register() has timed out: a stop() that has begun is
\* eventually over.
Cex_C33 == (stopState = "active") ~> (stopState \in {"returned", "raised"})

\* C34: invite() eventually returns whenever the server answers the INVITE,
\* also when the answer is a final response other than 401 (200, 404, 486,
\* 503) with no 100 or 180 before it: once invite() has read such a response
\* carrying the Call-ID of its INVITE, it eventually ends.
Cex_C34 ==
  (/\ started /\ pc[Caller] = "i_disp" /\ icall # 0
   /\ \E st \in {200, 404, 486, 503} : resp[Caller] = Resp(st, icall))
  ~> (pc[Caller] \notin InvitePcs)

\* C35: the running flag is set only while the client is actually running:
\* when no start() has ended normally (the only calls so far failed, in
\* bind or in the initial registration) and no call is in progress, NSD is
\* false, no receive loop exists and no refresh timer is pending.
Cex_C35 ==
  (pc[Caller] = "idle" /\ ~started /\ stopState = "no")
  => /\ ~NSD
     /\ pc[Loop] = "unborn"
     /\ \A id \in TimerIds : timers[id] # "pending"

\* C36: the call callback is only ever invoked by a thread that holds
\* recvLock (the receive loop, the dispatch loop of invite(), register()),
\* and a thread whose callback has called register(), deregister(),
\* subscribe() or invite() never gets past the acquire of that call.
Thm_C36 ==
  [][/\ cbLog' # cbLog =>
          \E t \in Threads : /\ recvLock = {t} /\ pc'[t] # pc[t]
                             /\ pc[t] \in {"l_recv", "i_disp", "r_final"}
     /\ \A t \in inCallback : pc'[t] = pc[t] /\ pc[t] \in AcquirePcs]_vars
Wit_C36 ==
  /\ Loop \in inCallback /\ recvLock = {Loop} /\ pc[Loop] = "d_acquire"
  /\ cbLog # <<>> /\ pc[Caller] \in AcquirePcs

\* C37: all requests the client sends within one outbound call carry the
\* same local From tag: any two of the INVITEs and ACKs on the wire that
\* have the same Call-ID have the same From tag, which is the tag stored in
\* tagLibrary for that Call-ID.
Cex_C37 ==
  \A i, j \in 1..Len(wire) :
    (/\ wire[i].kind \in {"INVITE", "ACK"} /\ wire[j].kind \in {"INVITE", "ACK"}
     /\ wire[i].callid = wire[j].callid)
    => /\ wire[i].fromtag = wire[j].fromtag
       /\ wire[i].fromtag = tagLibrary[wire[i].callid]

\* C38: all responses the client sends within one inbound dialog carry the
\* same local To tag: a 200 OK sent for a BYE or CANCEL whose Call-ID has a
\* 180 Ringing built for it carries the To tag of that 180, which is the tag
\* stored in tagLibrary for the Call-ID.
Cex_C38 ==
  [][\A c \in DOMAIN tagLibrary :
       (/\ Len(wire') = Len(wire) + 1
        /\ wire'[Len(wire')].kind = "200"
        /\ wire'[Len(wire')].cmethod \in {"BYE", "CANCEL"}
        /\ wire'[Len(wire')].callid = c)
       => wire'[Len(wire')].totag = tagLibrary[c]]_vars

\* C39: the CSeq numbers of the REGISTER messages on the wire are strictly
\* increasing in send order, across initial registration, authenticated
\* retries, 500 retries, timer-driven refreshes and the deregistration of
\* stop(), for every interleaving of the refresh timer thread with stop().
Thm_C39 ==
  \A i, j \in 1..Len(wire) :
    (i < j /\ wire[i].kind = "REGISTER" /\ wire[j].kind = "REGISTER")
    => wire[i].cseq < wire[j].cseq
Wit_C39 ==
  /\ Len(wire) >= 4
  /\ \E i, j, k \in 1..Len(wire) :
       /\ i < j /\ j < k
       /\ wire[i].kind = "REGISTER" /\ wire[i].auth
       /\ wire[j].kind = "REGISTER" /\ wire[j].expires = default_expires
       /\ wire[k].kind = "REGISTER" /\ wire[k].expires = 0
  /\ \E id \in TimerIds : firstRequest[id].kind = "REGISTER"
  /\ stopState = "returned"

\* C40: parse_message sends an outbound message only for an inbound INVITE
\* without callback, BYE, CANCEL and NOTIFY.  For an inbound ACK and for
\* every inbound response it sends nothing and changes no client state;
\* responses with status 200, 404 or 503 are passed to the callback when one
\* is configured, 100 and 180 are dropped without callback.  Stated for the
\* steps of the receive loop that hand a datagram to parse_message.
Cex_C40 ==
  [][LET m == Head(inbox) IN
     (/\ pc[Loop] = "l_recv" /\ pc'[Loop] # "l_recv" /\ inbox # <<>>
      /\ inbox' = Tail(inbox) /\ ~ParseFails(m)
      /\ m.type = "resp" \/ m.method = "ACK")
     => /\ wire' = wire
        /\ UNCHANGED <<blocking, tags, cand, tagLibrary, regTag, use_keep_alive, NSD,
                       sock, recvLock, registerThread, timers, callID,
                       registerCounter, inviteCounter, subscribeCounter,
                       my_public_ip, my_public_port>>]_vars

\* C40, amended: the same, except that handling a response puts the socket
\* into blocking mode (line 875), always when no callback is invoked for the
\* response and unless the callback raises when one is.
Thm_C40 ==
  [][LET m == IF pc[Loop] = "l_recv" /\ inbox # <<>> THEN Head(inbox) ELSE resp[Loop] IN
     /\ (/\ pc[Loop] \in {"l_recv", "l_gentag"} /\ pc'[Loop] # pc[Loop]
         /\ wire' # wire)
        => /\ m.type = "req"
           /\ \/ m.method = "INVITE" /\ ~callCallback
              \/ m.method \in {"BYE", "CANCEL", "NOTIFY"}
     /\ (/\ pc[Loop] = "l_recv" /\ pc'[Loop] # "l_recv" /\ inbox # <<>>
         /\ inbox' = Tail(inbox) /\ ~ParseFails(m)
         /\ m.type = "resp" \/ m.method = "ACK")
        => /\ wire' = wire
           /\ \/ blocking' = TRUE /\ m.type = "resp"
              \/ blocking' = blocking /\ (m.type = "req" \/ cbLog' # cbLog)
           /\ UNCHANGED <<tags, cand, tagLibrary, regTag, use_keep_alive, NSD,
                          sock, recvLock, registerThread, timers, callID,
                          registerCounter, inviteCounter, subscribeCounter,
                          my_public_ip, my_public_port>>
           /\ cbLog' = IF m.type = "resp" /\ m.status \in {200, 404, 503} /\ callCallback
                         THEN Append(cbLog, m) ELSE cbLog]_vars
Wit_C40 ==
  /\ pc[Loop] = "l_fin" /\ blocking /\ recvLock = {Loop}
  /\ cbLog # <<>> /\ cbLog[Len(cbLog)].type = "resp" /\ cbLog[Len(cbLog)].status = 404
  /\ \E i \in 1..Len(wire) : wire[i].kind = "200" /\ wire[i].cmethod = "CANCEL"

====
